---- MODULE Spec2Model ----
(***************************************************************************)
(* Model of the clone-selection simulation core (src/simulation.py).       *)
(*                                                                         *)
(* Numbers.  Measurements are integers.  A correlation rho is carried in   *)
(* tenths (6 stands for 0.6) together with the weight sqrt(1 - rho^2) in   *)
(* tenths, so a mixed measurement rho*x + sqrt(1-rho^2)*noise is carried   *)
(* multiplied by 10; the success cutoff (a percentile with linear          *)
(* interpolation) is carried multiplied by 100.  Criteria attributes and   *)
(* thresholds are integers in units of 1e-11, so the tolerance 1e-10 of    *)
(* the "=" operator is 10 units.  Row positions and selection indices are  *)
(* 0-based as in the source; TLA+ sequences are 1-based, so a[i] of the    *)
(* source is a[i + 1] here.                                                *)
(*                                                                         *)
(* A call that raises is modelled by a record [ok |-> FALSE, error |-> m], *)
(* a call that returns by [ok |-> TRUE, value |-> v].  A function that     *)
(* draws random numbers is modelled by the set of its possible outcomes.   *)
(***************************************************************************)
EXTENDS Integers, Sequences, FiniteSets, TLC

\* ------------------------------------------------------------------ bounds
\* Largest number of clones (rows of the table, length of the sample).
MaxN == 3
\* Largest number of Monte Carlo repetitions of one call.
MaxRep == 2

\* ---------------------------------------------------------- value domains
\* Measurements an observed sample may hold (0 stands for any value <= 0).
DataVals == {0, 1, 2}
\* Values a lognormal draw may take (lognormal support is strictly positive).
LognormVals == {1, 2}
\* Values a kernel-density draw may take (a Gaussian kernel has full support).
KdeVals == {0, 2}

None == "None"
\* The value None in the place of a fitted model.
NoModel == [family |-> "None"]

Raise(m) == [ok |-> FALSE, error |-> m]
Return(v) == [ok |-> TRUE, value |-> v]

\* ------------------------------------------------------------ numpy helpers
\* Variant: the filter keeps zero (data >= 0).
Positive_NonNegative(data) == SelectSeq(data, LAMBDA x : x >= 0)

\* data[data > 0]
Positive(data) == SelectSeq(data, LAMBDA x : x > 0)

\* a[idx] with an integer index array idx (0-based positions).
Take(a, idx) == [i \in 1..Len(idx) |-> a[idx[i] + 1]]

\* a[mask] with a boolean mask of the same length.
RECURSIVE Compress(_, _)
Compress(a, mask) ==
    IF a = <<>> THEN <<>>
    ELSE (IF Head(mask) THEN <<Head(a)>> ELSE <<>>) \o Compress(Tail(a), Tail(mask))

\* s[-k:] of Python for k >= 0: the last k elements, and the whole of s when
\* k = 0 (because -0 = 0) or when k >= len(s).
LastK(s, k) ==
    IF k = 0 \/ k >= Len(s) THEN s ELSE SubSeq(s, Len(s) - k + 1, Len(s))

\* np.arange(n)
Arange(n) == [i \in 1..n |-> i - 1]

\* The permutations of 0..n-1, as index arrays.
Perms(n) == {p \in [1..n -> 0..(n - 1)] : \A i, j \in 1..n : i # j => p[i] # p[j]}

\* The same for every array length that occurs, computed once.
PermsOf == [n \in 0..(MaxN + 1) |-> Perms(n)]

\* np.argsort(a): an index array that sorts a ascending.  The default sort
\* kind is not stable, so the order among equal values is any order.
Argsort(a) ==
    {p \in PermsOf[Len(a)] : \A i \in 1..(Len(a) - 1) : a[p[i] + 1] <= a[p[i + 1] + 1]}

\* x * a + y * b for arrays a, b under numpy broadcasting of 1-d shapes.
Mix(x, a, y, b) ==
    IF Len(a) = Len(b) THEN Return([i \in 1..Len(a) |-> x * a[i] + y * b[i]])
    ELSE IF Len(a) = 1 THEN Return([i \in 1..Len(b) |-> x * a[1] + y * b[i]])
    ELSE IF Len(b) = 1 THEN Return([i \in 1..Len(a) |-> x * a[i] + y * b[1]])
    ELSE Raise("operands could not be broadcast together")

\* Insertion of v into an ascending sequence.
RECURSIVE Insert(_, _)
Insert(s, v) ==
    IF s = <<>> THEN <<v>>
    ELSE IF v <= Head(s) THEN <<v>> \o s
    ELSE <<Head(s)>> \o Insert(Tail(s), v)

RECURSIVE Sorted(_)
Sorted(s) == IF s = <<>> THEN <<>> ELSE Insert(Sorted(Tail(s)), Head(s))

\* 100 * np.percentile(a, q) for a non-empty a and 0 <= q <= 100: linear
\* interpolation between the order statistics around position (n-1)*q/100.
Percentile100(a, q) ==
    LET s == Sorted(a)
        pos == (Len(a) - 1) * q
        lo == pos \div 100
        fr == pos % 100
    IN  IF fr = 0 THEN 100 * s[lo + 1]
        ELSE 100 * s[lo + 1] + fr * (s[lo + 2] - s[lo + 1])

\* ------------------------------------------------------- Distribution Fitter
\* The parameters lognorm.fit(data, floc=0) returns are a function of the
\* positive data alone; the fitted model is represented by that data.
Lognorm(pos) == [family |-> "lognorm", loc |-> 0, fitted_to |-> pos]

fit_lognormal(data) ==
    LET pos == Positive(data)
    IN  IF Len(pos) = 0
        THEN Raise("No positive data points for lognormal fitting")
        ELSE Return(Lognorm(pos))

\* --------------------------------------------------------- Sample Generator
\* gaussian_kde(data): scipy refuses a dataset of one point; a dataset whose
\* points are all equal has a singular covariance, which raises or not
\* depending on the scipy version.
KdeRefuses(pos) == Len(pos) <= 1
KdeDegenerate(pos) == \A i, j \in 1..Len(pos) : pos[i] = pos[j]

Draws(size, vals) == {Return(s) : s \in [1..size -> vals]}

\* Variant: the final else branch falls through to the kernel density path.
Dispatch_FallThrough(pos, size, method, fitted_model) ==
    IF method = "lognormal"
    THEN LET m == IF fitted_model # NoModel THEN Return(fitted_model)
                  ELSE fit_lognormal(pos)
         IN  IF m.ok THEN Draws(size, LognormVals) ELSE {m}
    ELSE IF KdeRefuses(pos)
    THEN {Raise("dataset input should have multiple elements")}
    ELSE Draws(size, KdeVals)

\* Lines 21-28: the branch on method, on the data left after line 16.
Dispatch(pos, size, method, fitted_model) ==
    IF method = "lognormal"
    THEN LET m == IF fitted_model # NoModel THEN Return(fitted_model)
                  ELSE fit_lognormal(pos)
         IN  IF m.ok THEN Draws(size, LognormVals) ELSE {m}
    ELSE IF method = "kde"
    THEN IF KdeRefuses(pos)
         THEN {Raise("dataset input should have multiple elements")}
         ELSE IF KdeDegenerate(pos)
         THEN {Raise("singular data covariance matrix")} \cup Draws(size, KdeVals)
         ELSE Draws(size, KdeVals)
    ELSE {Raise("Unsupported distribution method")}

\* Variant: only the lognormal path discards the values <= 0.
generate_samples_KdeUnfiltered(data, size, method, fitted_model) ==
    LET pos == IF method = "lognormal" THEN Positive(data) ELSE data
    IN  IF Len(pos) = 0
        THEN {Raise("No valid data points for sample generation")}
        ELSE Dispatch(pos, size, method, fitted_model)

\* The set of outcomes of generate_samples(data, size, method, fitted_model).
generate_samples(data, size, method, fitted_model) ==
    LET pos == Positive(data)
    IN  IF Len(pos) = 0
        THEN {Raise("No valid data points for sample generation")}
        ELSE Dispatch(pos, size, method, fitted_model)

\* ----------------------------------------------------------- Criteria Filter
\* Tolerance of the "=" operator, 1e-10, in units of 1e-11.
Epsilon == 10

Abs(x) == IF x < 0 THEN -x ELSE x

\* len(df) and the columns of the table: df.columns[c] is the column named c.
Len_df(df) == df.nrows
HasColumn(df, c) == c \in DOMAIN df.columns

AllTrue(n) == [i \in 1..n |-> TRUE]

\* Variant: >= compares strictly.
Passes_Strict(op, v, thresh) ==
    IF op = ">=" THEN v > thresh
    ELSE IF op = "<=" THEN v <= thresh
    ELSE Abs(v - thresh) < Epsilon

\* Variant: = compares exactly.
Passes_Exact(op, v, thresh) ==
    IF op = ">=" THEN v >= thresh
    ELSE IF op = "<=" THEN v <= thresh
    ELSE v = thresh

\* Lines 41-46: the comparison of one attribute value with the threshold.
Passes(op, v, thresh) ==
    IF op = ">=" THEN v >= thresh
    ELSE IF op = "<=" THEN v <= thresh
    ELSE Abs(v - thresh) < Epsilon

\* Variant: the operator is checked before the column is looked up.
Criterion_OpFirst(df, crit, indices, filter_mask) ==
    IF crit[2] \notin {">=", "<=", "="} THEN Raise("Unsupported operator")
    ELSE IF ~HasColumn(df, crit[1]) THEN Return(filter_mask)
    ELSE IF \E i \in 1..Len(indices) : indices[i] >= Len_df(df)
    THEN Raise("index out of bounds")
    ELSE Return([i \in 1..Len(indices) |->
                    filter_mask[i]
                    /\ Passes(crit[2], df.columns[crit[1]][indices[i] + 1], crit[3])])

\* Lines 37-48: one criterion applied to the mask so far.
Criterion(df, crit, indices, filter_mask) ==
    LET crit_col == crit[1]
        op == crit[2]
        thresh == crit[3]
    IN  IF ~HasColumn(df, crit_col) THEN Return(filter_mask)
        ELSE IF \E i \in 1..Len(indices) : indices[i] >= Len_df(df)
        THEN Raise("index out of bounds")
        ELSE IF op \in {">=", "<=", "="}
        THEN Return([i \in 1..Len(indices) |->
                        filter_mask[i]
                        /\ Passes(op, df.columns[crit_col][indices[i] + 1], thresh)])
        ELSE Raise("Unsupported operator")

\* Lines 36-50: the loop over criteria_settings from criterion k on.
RECURSIVE FilterFrom(_, _, _, _, _)
FilterFrom(df, criteria_settings, indices, k, filter_mask) ==
    IF k > Len(criteria_settings) THEN Return(filter_mask)
    ELSE LET c == Criterion(df, criteria_settings[k], indices, filter_mask)
         IN  IF c.ok THEN FilterFrom(df, criteria_settings, indices, k + 1, c.value)
             ELSE c

apply_criteria_filter(df, criteria_settings, indices) ==
    IF criteria_settings = <<>> THEN Return(AllTrue(Len(indices)))
    ELSE FilterFrom(df, criteria_settings, indices, 1, AllTrue(Len(indices)))

\* -------------------------------------------------------- Workflow Simulator
VARIABLES
    \* the arguments of simulate_workflow
    real_data, df, top_x_percent, step1_keep, step2_keep, step3_keep,
    correlation, n_rep, method, criteria_settings, apply_criteria, workflow_steps,
    \* its position and its locals
    pc,              \* "call", "loop", "trial", "returned", "raised" ("idle": no call)
    fitted_model,    \* line 76
    cutoff,          \* line 82, multiplied by 100
    rep,             \* number of iterations of the loop of line 84 started
    success_count,   \* line 78
    success_counts,  \* line 79
    trial,           \* the locals of the iteration in progress
    result,          \* what the call returned or raised
    \* a direct call of one of the helper functions: its arguments and outcome
    args, out,
    \* run_sensitivity_analysis: its arguments, locals and outcome
    sens,
    \* the random source when its draws are fixed in advance: the draws of each
    \* iteration of the loop of line 84 (empty: the draws are free)
    seed,
    \* what an earlier call of simulate_workflow under the same seed came to
    earlier

sim_args == <<real_data, df, top_x_percent, step1_keep, step2_keep, step3_keep,
              correlation, n_rep, method, criteria_settings, apply_criteria,
              workflow_steps>>
sim_locals == <<pc, fitted_model, cutoff, rep, success_count, success_counts,
                trial, result>>
vars == <<sim_args, sim_locals, args, out, sens, seed, earlier>>

\* sqrt(1 - rho^2) in tenths, for rho in tenths.
SqrtOneMinusSq(rho) == CASE rho = 0 -> 10 [] rho = 6 -> 8 [] rho = 8 -> 6 [] rho = 10 -> 0

\* The locals of one iteration before anything is assigned.
NoTrial ==
    [outcome |-> "none", error |-> None,
     drawn_f |-> <<>>, filter_mask |-> <<>>, assay_f |-> <<>>,
     top1_idx |-> <<>>, top1_f |-> <<>>, noise1 |-> <<>>, assay_g |-> <<>>,
     top2_idx |-> <<>>, top2_f |-> <<>>, noise2 |-> <<>>, assay_h |-> <<>>,
     final_idx |-> <<>>, final_scores |-> <<>>,
     argsort_f |-> <<>>, argsort_g |-> <<>>, argsort_h |-> <<>>,
     original_indices |-> <<>>, mask |-> <<>>, count_success |-> 0]

\* `except Exception: continue` (lines 146-148) and the `continue` statements.
Failed(t, e) == [t EXCEPT !.outcome = "error", !.error = e]
Skipped(t) == [t EXCEPT !.outcome = "skipped"]

\* Lines 138-139: the number of final scores >= cutoff.
CountSuccess(final_scores) ==
    Cardinality({i \in 1..Len(final_scores) : 100 * final_scores[i] >= cutoff})

\* Variant: the trial is abandoned only when no final survivor passes.
Gate_Any(t) ==
    IF apply_criteria
    THEN LET original_indices ==
                 IF workflow_steps = 3
                 THEN Take(t.top1_idx, Take(t.top2_idx, t.final_idx))
                 ELSE Take(t.top1_idx, t.final_idx)
             f == apply_criteria_filter(df, criteria_settings, original_indices)
             t1 == [t EXCEPT !.original_indices = original_indices]
         IN  IF ~f.ok THEN Failed(t1, f.error)
             ELSE IF \A i \in 1..Len(f.value) : ~f.value[i]
             THEN Skipped([t1 EXCEPT !.mask = f.value])
             ELSE [t1 EXCEPT !.mask = f.value, !.outcome = "completed",
                             !.count_success = CountSuccess(t.final_scores)]
    ELSE [t EXCEPT !.outcome = "completed",
                   !.count_success = CountSuccess(t.final_scores)]

\* Variant: the positions of the final selection are taken for table rows.
Gate_Unmapped(t) ==
    IF apply_criteria
    THEN LET original_indices == t.final_idx
             f == apply_criteria_filter(df, criteria_settings, original_indices)
             t1 == [t EXCEPT !.original_indices = original_indices]
         IN  IF ~f.ok THEN Failed(t1, f.error)
             ELSE IF \E i \in 1..Len(f.value) : ~f.value[i]
             THEN Skipped([t1 EXCEPT !.mask = f.value])
             ELSE [t1 EXCEPT !.mask = f.value, !.outcome = "completed",
                             !.count_success = CountSuccess(t.final_scores)]
    ELSE [t EXCEPT !.outcome = "completed",
                   !.count_success = CountSuccess(t.final_scores)]

\* Lines 125-139: criteria gating of the final survivors, then the count.
Gate(t) ==
    IF apply_criteria
    THEN LET original_indices ==
                 IF workflow_steps = 3
                 THEN Take(t.top1_idx, Take(t.top2_idx, t.final_idx))
                 ELSE Take(t.top1_idx, t.final_idx)
             f == apply_criteria_filter(df, criteria_settings, original_indices)
             t1 == [t EXCEPT !.original_indices = original_indices]
         IN  IF ~f.ok THEN Failed(t1, f.error)
             ELSE IF \E i \in 1..Len(f.value) : ~f.value[i]
             THEN Skipped([t1 EXCEPT !.mask = f.value])
             ELSE [t1 EXCEPT !.mask = f.value, !.outcome = "completed",
                             !.count_success = CountSuccess(t.final_scores)]
    ELSE [t EXCEPT !.outcome = "completed",
                   !.count_success = CountSuccess(t.final_scores)]

\* Variant: the stage-2 measurements of the survivors are the mixing base.
Final_Stage2Base(t) ==
    IF workflow_steps = 3
    THEN \E g \in generate_samples(real_data, step2_keep, method, fitted_model) :
           IF ~g.ok THEN trial' = Failed(t, g.error)
           ELSE LET m == Mix(correlation, Take(t.assay_g, t.top2_idx),
                             SqrtOneMinusSq(correlation), g.value)
                IN  IF ~m.ok THEN trial' = Failed([t EXCEPT !.noise2 = g.value], m.error)
                    ELSE IF Len(m.value) < step3_keep
                    THEN trial' = Skipped([t EXCEPT !.noise2 = g.value,
                                                    !.assay_h = m.value])
                    ELSE \E p \in Argsort(m.value) :
                           trial' = Gate([t EXCEPT !.noise2 = g.value,
                                                   !.assay_h = m.value,
                                                   !.argsort_h = p,
                                                   !.final_idx = LastK(p, step3_keep),
                                                   !.final_scores =
                                                       Take(t.top2_f, LastK(p, step3_keep))])
    ELSE trial' = Gate([t EXCEPT !.final_idx = LastK(t.argsort_g, step3_keep),
                                 !.final_scores =
                                     Take(t.top1_f, LastK(t.argsort_g, step3_keep))])

\* Variant: the second np.argsort(assay_g) (line 122) orders equal values on its own.
Final_Resorted(t) ==
    IF workflow_steps = 3
    THEN \E g \in generate_samples(real_data, step2_keep, method, fitted_model) :
           IF ~g.ok THEN trial' = Failed(t, g.error)
           ELSE LET m == Mix(correlation, t.top2_f, SqrtOneMinusSq(correlation), g.value)
                IN  IF ~m.ok THEN trial' = Failed([t EXCEPT !.noise2 = g.value], m.error)
                    ELSE IF Len(m.value) < step3_keep
                    THEN trial' = Skipped([t EXCEPT !.noise2 = g.value,
                                                    !.assay_h = m.value])
                    ELSE \E p \in Argsort(m.value) :
                           trial' = Gate([t EXCEPT !.noise2 = g.value,
                                                   !.assay_h = m.value,
                                                   !.argsort_h = p,
                                                   !.final_idx = LastK(p, step3_keep),
                                                   !.final_scores =
                                                       Take(t.top2_f, LastK(p, step3_keep))])
    ELSE \E q \in Argsort(t.assay_g) :
           trial' = Gate([t EXCEPT !.final_idx = LastK(q, step3_keep),
                                   !.final_scores = Take(t.top1_f, LastK(q, step3_keep))])

\* Lines 111-123: the final selection.  (np.argsort(assay_g) of line 122 is
\* the index array of line 108: the same function of the same array.)
Final(t) ==
    IF workflow_steps = 3
    THEN \E g \in generate_samples(real_data, step2_keep, method, fitted_model) :
           IF ~g.ok THEN trial' = Failed(t, g.error)
           ELSE LET m == Mix(correlation, t.top2_f, SqrtOneMinusSq(correlation), g.value)
                IN  IF ~m.ok THEN trial' = Failed([t EXCEPT !.noise2 = g.value], m.error)
                    ELSE IF Len(m.value) < step3_keep
                    THEN trial' = Skipped([t EXCEPT !.noise2 = g.value,
                                                    !.assay_h = m.value])
                    ELSE \E p \in Argsort(m.value) :
                           trial' = Gate([t EXCEPT !.noise2 = g.value,
                                                   !.assay_h = m.value,
                                                   !.argsort_h = p,
                                                   !.final_idx = LastK(p, step3_keep),
                                                   !.final_scores =
                                                       Take(t.top2_f, LastK(p, step3_keep))])
    ELSE trial' = Gate([t EXCEPT !.final_idx = LastK(t.argsort_g, step3_keep),
                                 !.final_scores =
                                     Take(t.top1_f, LastK(t.argsort_g, step3_keep))])

\* Variant: the stage-2 measurements of the survivors are carried forward.
Stage2_CarriesMeasured(t) ==
    \E g \in generate_samples(real_data, step1_keep, method, fitted_model) :
      IF ~g.ok THEN trial' = Failed(t, g.error)
      ELSE LET m == Mix(correlation, t.top1_f, SqrtOneMinusSq(correlation), g.value)
           IN  IF ~m.ok THEN trial' = Failed([t EXCEPT !.noise1 = g.value], m.error)
               ELSE IF Len(m.value) < step2_keep
               THEN trial' = Skipped([t EXCEPT !.noise1 = g.value, !.assay_g = m.value])
               ELSE \E p \in Argsort(m.value) :
                      Final([t EXCEPT !.noise1 = g.value, !.assay_g = m.value,
                                      !.argsort_g = p,
                                      !.top2_idx = LastK(p, step2_keep),
                                      !.top2_f = Take(m.value, LastK(p, step2_keep))])

\* Lines 100-109: the stage-2 measurements and the stage-2 selection.
Stage2(t) ==
    \E g \in generate_samples(real_data, step1_keep, method, fitted_model) :
      IF ~g.ok THEN trial' = Failed(t, g.error)
      ELSE LET m == Mix(correlation, t.top1_f, SqrtOneMinusSq(correlation), g.value)
           IN  IF ~m.ok THEN trial' = Failed([t EXCEPT !.noise1 = g.value], m.error)
               ELSE IF Len(m.value) < step2_keep
               THEN trial' = Skipped([t EXCEPT !.noise1 = g.value, !.assay_g = m.value])
               ELSE \E p \in Argsort(m.value) :
                      Final([t EXCEPT !.noise1 = g.value, !.assay_g = m.value,
                                      !.argsort_g = p,
                                      !.top2_idx = LastK(p, step2_keep),
                                      !.top2_f = Take(t.top1_f, LastK(p, step2_keep))])

\* Lines 96-98: the stage-1 selection from the (possibly filtered) vector.
Stage1(t) ==
    \E p \in Argsort(t.assay_f) :
      Stage2([t EXCEPT !.argsort_f = p,
                       !.top1_idx = LastK(p, step1_keep),
                       !.top1_f = Take(t.assay_f, LastK(p, step1_keep))])

\* Variant: the criteria are applied up front in either mode.
Upfront_Always(t) ==
    LET f == apply_criteria_filter(df, criteria_settings, Arange(Len_df(df)))
    IN  IF ~f.ok THEN trial' = Failed(t, f.error)
        ELSE IF Len(f.value) # Len(t.drawn_f)
        THEN trial' = Failed([t EXCEPT !.filter_mask = f.value],
                             "boolean index did not match indexed array")
        ELSE LET kept == Compress(t.drawn_f, f.value)
                 t1 == [t EXCEPT !.filter_mask = f.value, !.assay_f = kept]
             IN  IF Len(kept) < step1_keep THEN trial' = Skipped(t1)
                 ELSE Stage1(t1)

\* Lines 89-94: criteria applied up front to the whole population.
Upfront(t) ==
    IF ~apply_criteria
    THEN LET f == apply_criteria_filter(df, criteria_settings, Arange(Len_df(df)))
         IN  IF ~f.ok THEN trial' = Failed(t, f.error)
             ELSE IF Len(f.value) # Len(t.drawn_f)
             THEN trial' = Failed([t EXCEPT !.filter_mask = f.value],
                                  "boolean index did not match indexed array")
             ELSE LET kept == Compress(t.drawn_f, f.value)
                      t1 == [t EXCEPT !.filter_mask = f.value, !.assay_f = kept]
                  IN  IF Len(kept) < step1_keep THEN trial' = Skipped(t1)
                      ELSE Stage1(t1)
    ELSE Stage1([t EXCEPT !.assay_f = t.drawn_f])

\* Lines 85-139: every way one iteration of the loop can go; trial' holds
\* the locals it ends with.
Iteration ==
    \E g \in generate_samples(real_data, Len(real_data), method, fitted_model) :
      IF ~g.ok THEN trial' = Failed(NoTrial, g.error)
      ELSE Upfront([NoTrial EXCEPT !.drawn_f = g.value])

\* Variant: step2_keep is checked against step1_keep only for three steps.
Validate_Step2OnlyFor3(data, s1, s2, s3, steps) ==
    IF Len(data) = 0 THEN Raise("No valid data provided")
    ELSE IF s1 > Len(data) THEN Raise("Step 1 keep cannot exceed data size")
    ELSE IF steps = 3 /\ s2 > s1 THEN Raise("Step 2 keep cannot exceed step 1 keep")
    ELSE IF steps = 3 /\ s3 > s2 THEN Raise("Step 3 keep cannot exceed step 2 keep")
    ELSE Return(TRUE)

\* Lines 60-73: the precondition checks, in the order of the source.
Validate(data, s1, s2, s3, steps) ==
    IF Len(data) = 0 THEN Raise("No valid data provided")
    ELSE IF s1 > Len(data) THEN Raise("Step 1 keep cannot exceed data size")
    ELSE IF s2 > s1 THEN Raise("Step 2 keep cannot exceed step 1 keep")
    ELSE IF steps = 3 /\ s3 > s2 THEN Raise("Step 3 keep cannot exceed step 2 keep")
    ELSE Return(TRUE)

\* Variant: the model is fitted whatever the method.
FitFor_Always(m, data) == fit_lognormal(data)

\* Line 76.
FitFor(m, data) == IF m = "lognormal" THEN fit_lognormal(data) ELSE Return(NoModel)

\* Variant: the counters of lines 78-79 live outside the call and are not
\* reset on entry.
Enter_CountersOutlive ==
    /\ pc = "call"
    /\ LET v == Validate(real_data, step1_keep, step2_keep, step3_keep, workflow_steps)
           f == FitFor(method, real_data)
       IN  IF ~v.ok
           THEN /\ pc' = "raised"
                /\ result' = v
                /\ UNCHANGED <<fitted_model, cutoff, success_count, success_counts>>
           ELSE IF ~f.ok
           THEN /\ pc' = "raised"
                /\ result' = f
                /\ UNCHANGED <<fitted_model, cutoff, success_count, success_counts>>
           ELSE /\ pc' = "loop"
                /\ fitted_model' = f.value
                /\ UNCHANGED <<success_count, success_counts>>
                /\ cutoff' = Percentile100(real_data, 100 - top_x_percent)
                /\ UNCHANGED result
    /\ UNCHANGED <<sim_args, rep, trial, args, out, sens, seed, earlier>>

\* Lines 60-82: checks, fit, counters (lines 78-79) and cutoff.  An exception
\* leaves the call at once.
Enter ==
    /\ pc = "call"
    /\ LET v == Validate(real_data, step1_keep, step2_keep, step3_keep, workflow_steps)
           f == FitFor(method, real_data)
       IN  IF ~v.ok
           THEN /\ pc' = "raised"
                /\ result' = v
                /\ UNCHANGED <<fitted_model, cutoff, success_count, success_counts>>
           ELSE IF ~f.ok
           THEN /\ pc' = "raised"
                /\ result' = f
                /\ UNCHANGED <<fitted_model, cutoff, success_count, success_counts>>
           ELSE /\ pc' = "loop"
                /\ fitted_model' = f.value
                /\ success_count' = 0
                /\ success_counts' = <<>>
                /\ cutoff' = Percentile100(real_data, 100 - top_x_percent)
                /\ UNCHANGED result
    /\ UNCHANGED <<sim_args, rep, trial, args, out, sens, seed, earlier>>

\* Lines 84-136: one iteration starts and runs up to the count of successes,
\* or is abandoned (skipped, or failed and swallowed).
Iterate ==
    /\ pc = "loop"
    /\ rep < n_rep
    /\ Iteration
    /\ rep' = rep + 1
    /\ pc' = "trial"
    /\ UNCHANGED <<sim_args, fitted_model, cutoff, success_count, success_counts,
                   result, args, out, sens, seed, earlier>>

\* Variant: an abandoned iteration is counted as a success.
Record_CountsAbandoned ==
    /\ pc = "trial"
    /\ IF trial.outcome = "completed"
       THEN /\ success_counts' = Append(success_counts, trial.count_success)
            /\ success_count' = IF trial.count_success = step3_keep
                                THEN success_count + 1 ELSE success_count
       ELSE /\ success_count' = success_count + 1
            /\ UNCHANGED success_counts
    /\ trial' = NoTrial
    /\ pc' = "loop"
    /\ UNCHANGED <<sim_args, fitted_model, cutoff, rep, result, args, out, sens, seed, earlier>>

\* Variant: no try/except around the loop body; an exception leaves the call.
Record_Propagates ==
    /\ pc = "trial"
    /\ IF trial.outcome = "error"
       THEN /\ pc' = "raised"
            /\ result' = Raise(trial.error)
            /\ UNCHANGED <<success_counts, success_count, trial>>
       ELSE /\ IF trial.outcome = "completed"
               THEN /\ success_counts' = Append(success_counts, trial.count_success)
                    /\ success_count' = IF trial.count_success = step3_keep
                                        THEN success_count + 1 ELSE success_count
               ELSE UNCHANGED <<success_counts, success_count>>
            /\ trial' = NoTrial
            /\ pc' = "loop"
            /\ UNCHANGED result
    /\ UNCHANGED <<sim_args, fitted_model, cutoff, rep, args, out, sens, seed, earlier>>

\* Lines 140-144 for an iteration that completed; nothing for one abandoned.
Succeeded(t) == t.count_success = step3_keep

Record ==
    /\ pc = "trial"
    /\ IF trial.outcome = "completed"
       THEN /\ success_counts' = Append(success_counts, trial.count_success)
            /\ success_count' = IF Succeeded(trial) THEN success_count + 1
                                ELSE success_count
       ELSE UNCHANGED <<success_counts, success_count>>
    /\ trial' = NoTrial
    /\ pc' = "loop"
    /\ UNCHANGED <<sim_args, fitted_model, cutoff, rep, result, args, out, sens, seed, earlier>>

\* Variant: the denominator is the number of iterations that completed.
Probability_OverCompleted(count, n) ==
    IF Len(success_counts) > 0 THEN <<count, Len(success_counts)>> ELSE <<0, 1>>

\* Lines 150-151.  The probability is the pair <<numerator, denominator>>.
Probability(count, n) == IF n > 0 THEN <<count, n>> ELSE <<0, 1>>

Finish ==
    /\ pc = "loop"
    /\ rep >= n_rep
    /\ pc' = "returned"
    /\ result' = Return([success_probability |-> Probability(success_count, n_rep),
                         fitted_model |-> fitted_model,
                         success_counts |-> success_counts])
    /\ UNCHANGED <<sim_args, fitted_model, cutoff, rep, success_count,
                   success_counts, trial, args, out, sens, seed, earlier>>

\* ------------------------------------------------------------ configurations
SeqsUpTo(vals, n) == UNION {[1..k -> vals] : k \in 0..n}

\* An observed sample of n distinct positive measurements.
Ramp(n) == [i \in 1..n |-> i]

\* A clone table of n rows with one criteria column; row r holds 10 * r.
Table(n) == [nrows |-> n, columns |-> ("Criteria1" :> [i \in 1..n |-> 10 * (i - 1)])]

Methods == {"lognormal", "kde", "histogram"}
Correlations == {6, 10}
TopXs == {1, 50, 100}
KeepCounts == 0..(MaxN + 1)
CriteriaLists ==
    {<<>>,
     <<<<"Criteria1", ">=", 10>>>>,
     <<<<"Criteria1", "<=", 10>>, <<"Criteria9", "!=", 0>>>>,
     <<<<"Criteria1", "=", 11>>>>,
     <<<<"Criteria1", "!=", 0>>>>}

Config(data, table, x, s1, s2, s3, rho, n, m, crit, final, steps) ==
    [real_data |-> data, df |-> table, top_x_percent |-> x, step1_keep |-> s1,
     step2_keep |-> s2, step3_keep |-> s3, correlation |-> rho, n_rep |-> n,
     method |-> m, criteria_settings |-> crit, apply_criteria |-> final,
     workflow_steps |-> steps]

\* Largest sample of the sweeps below that cover every combination.
SweepN == MaxN - 1

\* Every combination of keep-counts and step count, on samples of every length,
\* run for one repetition.
KeepSweep ==
    {Config(Ramp(n), Table(n), 50, s1, s2, s3, 6, 1, "lognormal", <<>>, FALSE, steps)
     : n \in 0..SweepN, s1 \in KeepCounts, s2 \in KeepCounts, s3 \in KeepCounts,
       steps \in {2, 3}}

\* Every sample, method, success threshold and repetition count.
DataSweep ==
    {Config(data, Table(Len(data)), x, 1, 1, 1, 6, n, m, <<>>, FALSE, 2)
     : data \in SeqsUpTo(DataVals, SweepN), x \in TopXs, n \in 0..MaxRep, m \in Methods}

\* Every criteria list, gating mode and table length.
CriteriaSweep ==
    {Config(Ramp(SweepN), Table(rows), 50, SweepN, 1, 1, 6, MaxRep, "lognormal",
            crit, final, steps)
     : rows \in {SweepN, SweepN + 1}, crit \in CriteriaLists, final \in BOOLEAN,
       steps \in {2, 3}}

\* Workflows that narrow the largest sample, with and without criteria, run
\* for one repetition.
NarrowSweep ==
    {Config(Ramp(MaxN), Table(MaxN), 50, k[1], k[2], k[3], rho, 1, "lognormal",
            crit, final, steps)
     : k \in {<<3, 2, 1>>, <<2, 2, 2>>, <<2, 1, 0>>, <<1, 1, 2>>},
       rho \in Correlations,
       crit \in {<<>>, <<<<"Criteria1", ">=", 10>>>>}, final \in BOOLEAN,
       steps \in {2, 3}}

Configs == KeepSweep \cup DataSweep \cup CriteriaSweep \cup NarrowSweep

\* No direct call of a helper function; no outcome yet.
NoCall == [fn |-> None]
Pending == [pending |-> TRUE]
NoSeed == <<>>

\* Nothing but the call modelled is going on.
Alone(call) ==
    /\ args = call
    /\ out = Pending
    /\ sens = NoCall
    /\ seed = NoSeed
    /\ earlier = Pending

\* The locals of simulate_workflow on entry (lines 78-79).
Entry(at) ==
    /\ pc = at
    /\ fitted_model = NoModel
    /\ cutoff = 0
    /\ rep = 0
    /\ success_count = 0
    /\ success_counts = <<>>
    /\ trial = NoTrial
    /\ result = Pending

Called(c) ==
    /\ real_data = c.real_data
    /\ df = c.df
    /\ top_x_percent = c.top_x_percent
    /\ step1_keep = c.step1_keep
    /\ step2_keep = c.step2_keep
    /\ step3_keep = c.step3_keep
    /\ correlation = c.correlation
    /\ n_rep = c.n_rep
    /\ method = c.method
    /\ criteria_settings = c.criteria_settings
    /\ apply_criteria = c.apply_criteria
    /\ workflow_steps = c.workflow_steps

Init ==
    /\ \E c \in Configs : Called(c)
    /\ Entry("call")
    /\ Alone(NoCall)

Next == Enter \/ Iterate \/ Record \/ Finish

Spec == Init /\ [][Next]_vars

\* ------------------------------------------- the helper functions on their own
\* No call of simulate_workflow is in progress.
NoSimulation ==
    /\ Called(Config(<<>>, Table(0), 50, 1, 1, 1, 6, 0, "lognormal", <<>>, FALSE, 2))
    /\ Entry("idle")

Idle ==
    /\ NoSimulation
    /\ sens = NoCall
    /\ seed = NoSeed
    /\ earlier = Pending

\* Fitted models a caller may supply: none, or one fitted earlier.
SuppliedModels == {NoModel, Lognorm(<<1, 2>>)}

GenCalls ==
    {[fn |-> "fit_lognormal", data |-> d] : d \in SeqsUpTo(DataVals, MaxN)}
    \cup
    {[fn |-> "generate_samples", data |-> d, size |-> n, method |-> m,
      fitted_model |-> fm]
     : d \in SeqsUpTo(DataVals, MaxN), n \in 0..SweepN, m \in Methods,
       fm \in SuppliedModels}

InitGen ==
    /\ Idle
    /\ args \in GenCalls
    /\ out = Pending

CallFit ==
    /\ out = Pending
    /\ args.fn = "fit_lognormal"
    /\ out' = fit_lognormal(args.data)
    /\ UNCHANGED <<sim_args, sim_locals, args, sens, seed, earlier>>

CallGenerate ==
    /\ out = Pending
    /\ args.fn = "generate_samples"
    /\ out' \in generate_samples(args.data, args.size, args.method, args.fitted_model)
    /\ UNCHANGED <<sim_args, sim_locals, args, sens, seed, earlier>>

NextGen == CallFit \/ CallGenerate

SpecGen == InitGen /\ [][NextGen]_vars

\* Attribute values and thresholds, in units of 1e-11.
CritVals == {0, 1, 10, 100}
Thresholds == {0, 10}
Columns == {"Criteria1", "Criteria9"}
Operators == {">=", "<=", "=", "!="}

\* Tables with the one column Criteria1.
Tables ==
    UNION {{[nrows |-> n, columns |-> ("Criteria1" :> col)] : col \in [1..n -> CritVals]}
           : n \in 1..SweepN}

\* Criteria lists of up to two criteria, and index arrays of up to two row
\* indices, the last one past the end of every table.
CriteriaSettings == SeqsUpTo(Columns \X Operators \X Thresholds, 2)
Indices == SeqsUpTo(0..SweepN, 2)

InitFilter ==
    /\ Idle
    /\ \E t \in Tables, cs \in CriteriaSettings, ix \in Indices :
          args = [fn |-> "apply_criteria_filter", df |-> t, criteria_settings |-> cs,
                  indices |-> ix]
    /\ out = Pending

CallFilter ==
    /\ out = Pending
    /\ args.fn = "apply_criteria_filter"
    /\ out' = apply_criteria_filter(args.df, args.criteria_settings, args.indices)
    /\ UNCHANGED <<sim_args, sim_locals, args, sens, seed, earlier>>

NextFilter == CallFilter

SpecFilter == InitFilter /\ [][NextFilter]_vars

\* ------------------------------------------------- run_sensitivity_analysis
\* The trial count of every call of the sweep (line 200) and the correlation
\* used when the list of correlations is empty (line 179), in tenths.
SensReps == 1000
DefaultCorrelation == 5

Min(a, b) == IF a < b THEN a ELSE b

\* int(num / den) for a non-negative quotient: the fraction is dropped.
Trunc(num, den) == num \div den

\* round(num / den) for a non-negative quotient, halves to the even neighbour.
Round(num, den) ==
    LET q == num \div den
        r == num % den
    IN  IF 2 * r > den \/ (2 * r = den /\ q % 2 = 1) THEN q + 1 ELSE q

\* Variant: the candidates are rounded to the nearest integer.
KeepRange_Rounded(b) ==
    <<Round(b, 2), Round(3 * b, 4), b, Round(5 * b, 4), Round(3 * b, 2)>>

\* Lines 165-169 and 170-174: the candidates of a keep-count with baseline b,
\* int(b * 0.5), int(b * 0.75), b, int(b * 1.25), int(b * 1.5).
KeepRange(b) ==
    <<Trunc(b, 2), Trunc(3 * b, 4), b, Trunc(5 * b, 4), Trunc(3 * b, 2)>>

\* Variant: the sweep is centred on the baseline threshold.
TopXRange_AroundBaseline(base) ==
    <<1, 2, base.top_x_percent, 10, 15>>

\* Line 175.
TopXRange(base) == <<1, 2, 5, 10, 15>>

\* Lines 164-176.  The dictionary is iterated in the order of its keys below.
ParamNames == <<"step1_keep", "step2_keep", "top_x_percent">>
param_ranges(base) ==
    [step1_keep |-> KeepRange(base.step1_keep),
     step2_keep |-> KeepRange(base.step2_keep),
     top_x_percent |-> TopXRange(base)]

\* Line 179.
FirstCorrelation(correlations) ==
    IF Len(correlations) > 0 THEN correlations[1] ELSE DefaultCorrelation

\* Lines 186-194: the baseline with one parameter overridden and the
\* keep-counts after it clamped.
test_settings(base, param_name, param_value) ==
    LET t == [base EXCEPT ![param_name] = param_value]
    IN  IF param_name = "step1_keep"
        THEN LET s2 == Min(t.step2_keep, param_value)
             IN  [t EXCEPT !.step2_keep = s2, !.step3_keep = Min(t.step3_keep, s2)]
        ELSE IF param_name = "step2_keep"
        THEN [t EXCEPT !.step3_keep = Min(t.step3_keep, param_value)]
        ELSE t

\* Variant: the call runs as many trials as the baseline asks for.
Invocation_BaselineReps(results, table, t, rho) ==
    Config(results, table, t.top_x_percent, t.step1_keep, t.step2_keep, t.step3_keep,
           rho, t.n_rep, t.dist_method, t.criteria_settings,
           t.apply_criteria_at_step2, t.workflow_steps)

\* Lines 197-202: the arguments of the call of simulate_workflow.
Invocation(results, table, t, rho) ==
    Config(results, table, t.top_x_percent, t.step1_keep, t.step2_keep, t.step3_keep,
           rho, SensReps, t.dist_method, t.criteria_settings,
           t.apply_criteria_at_step2, t.workflow_steps)

\* What a call of simulate_workflow with arguments c comes to when count of
\* its trials are fully successful: the checks and the fit of lines 60-76
\* raise or not as in Enter, and the call returns as in Finish.  No trial
\* succeeds when the sample holds no value above zero.
Simulated(c, count) ==
    LET v == Validate(c.real_data, c.step1_keep, c.step2_keep, c.step3_keep,
                      c.workflow_steps)
        f == FitFor(c.method, c.real_data)
        k == IF Positive(c.real_data) = <<>> THEN 0 ELSE Min(count, c.n_rep)
    IN  IF ~v.ok THEN v
        ELSE IF ~f.ok THEN f
        ELSE Return([success_probability |-> Probability(k, c.n_rep),
                     fitted_model |-> f.value])

\* How many of the trials of the i-th call for the p-th parameter are fully
\* successful, under three courses the random draws may take.
Lucks == {"never", "always", "alternating"}
SuccessCount(luck, p, i) ==
    CASE luck = "never" -> 0
      [] luck = "always" -> SensReps
      [] luck = "alternating" -> IF (p + i) % 2 = 0 THEN SensReps ELSE 1

\* The locals of run_sensitivity_analysis on entry.
SensCall(results, table, settings, correlations, luck) ==
    [fn |-> "run_sensitivity_analysis", results |-> results, df |-> table,
     settings |-> settings, correlations |-> correlations, luck |-> luck,
     at |-> "called", base_settings |-> <<>>, test_settings |-> <<>>,
     param_ranges |-> <<>>, correlation |-> 0,
     param |-> 0, done |-> 0, probabilities |-> <<>>,
     call |-> NoCall, outcome |-> Pending, raised |-> FALSE,
     sensitivity_results |-> <<>>]

\* Lines 160-179.  base_settings is a copy of the caller's settings.
SensBegin ==
    /\ sens.fn = "run_sensitivity_analysis"
    /\ sens.at = "called"
    /\ sens' = [sens EXCEPT !.at = "sweep",
                            !.base_settings = sens.settings,
                            !.param_ranges = param_ranges(sens.settings),
                            !.correlation = FirstCorrelation(sens.correlations),
                            !.param = 1, !.done = 0, !.probabilities = <<>>]
    /\ UNCHANGED <<sim_args, sim_locals, args, out, seed, earlier>>

\* Variant: an exception of simulate_workflow leaves the sweep.
SensCandidate_Propagates ==
    /\ sens.fn = "run_sensitivity_analysis"
    /\ sens.at = "sweep"
    /\ sens.param <= Len(ParamNames)
    /\ sens.done < Len(sens.param_ranges[ParamNames[sens.param]])
    /\ LET name == ParamNames[sens.param]
           value == sens.param_ranges[name][sens.done + 1]
           t == test_settings(sens.base_settings, name, value)
           c == Invocation(sens.results, sens.df, t, sens.correlation)
           o == Simulated(c, SuccessCount(sens.luck, sens.param, sens.done + 1))
       IN  IF o.ok
           THEN sens' = [sens EXCEPT !.done = @ + 1, !.test_settings = t,
                           !.call = c, !.outcome = o,
                           !.probabilities = Append(@, o.value.success_probability)]
           ELSE sens' = [sens EXCEPT !.done = @ + 1, !.test_settings = t,
                           !.call = c, !.outcome = o,
                           !.at = "raised", !.raised = TRUE]
    /\ UNCHANGED <<sim_args, sim_locals, args, out, seed, earlier>>

\* Variant: test_settings is base_settings itself, not a copy (line 186).
SensCandidate_InPlace ==
    /\ sens.fn = "run_sensitivity_analysis"
    /\ sens.at = "sweep"
    /\ sens.param <= Len(ParamNames)
    /\ sens.done < Len(sens.param_ranges[ParamNames[sens.param]])
    /\ LET name == ParamNames[sens.param]
           value == sens.param_ranges[name][sens.done + 1]
           t == test_settings(sens.base_settings, name, value)
           c == Invocation(sens.results, sens.df, t, sens.correlation)
           o == Simulated(c, SuccessCount(sens.luck, sens.param, sens.done + 1))
       IN  sens' = [sens EXCEPT !.done = @ + 1, !.test_settings = t,
                       !.base_settings = t,
                       !.call = c, !.outcome = o,
                       !.probabilities =
                           Append(@, IF o.ok THEN o.value.success_probability
                                             ELSE <<0, 1>>)]
    /\ UNCHANGED <<sim_args, sim_locals, args, out, seed, earlier>>

\* Lines 184-205: one candidate value.  The probability 0 of line 205 is the
\* pair <<0, 1>>.
SensCandidate ==
    /\ sens.fn = "run_sensitivity_analysis"
    /\ sens.at = "sweep"
    /\ sens.param <= Len(ParamNames)
    /\ sens.done < Len(sens.param_ranges[ParamNames[sens.param]])
    /\ LET name == ParamNames[sens.param]
           value == sens.param_ranges[name][sens.done + 1]
           t == test_settings(sens.base_settings, name, value)
           c == Invocation(sens.results, sens.df, t, sens.correlation)
           o == Simulated(c, SuccessCount(sens.luck, sens.param, sens.done + 1))
       IN  sens' = [sens EXCEPT !.done = @ + 1, !.test_settings = t,
                       !.call = c, !.outcome = o,
                       !.probabilities =
                           Append(@, IF o.ok THEN o.value.success_probability
                                             ELSE <<0, 1>>)]
    /\ UNCHANGED <<sim_args, sim_locals, args, out, seed, earlier>>

\* Lines 207-210, and line 182 for the next parameter.
SensCollect ==
    /\ sens.fn = "run_sensitivity_analysis"
    /\ sens.at = "sweep"
    /\ sens.param <= Len(ParamNames)
    /\ sens.done = Len(sens.param_ranges[ParamNames[sens.param]])
    /\ LET name == ParamNames[sens.param]
       IN  sens' = [sens EXCEPT
                      !.sensitivity_results =
                          (name :> [values |-> sens.param_ranges[name],
                                    probabilities |-> sens.probabilities]) @@ @,
                      !.param = @ + 1, !.done = 0, !.probabilities = <<>>]
    /\ UNCHANGED <<sim_args, sim_locals, args, out, seed, earlier>>

\* Line 212.
SensReturn ==
    /\ sens.fn = "run_sensitivity_analysis"
    /\ sens.at = "sweep"
    /\ sens.param > Len(ParamNames)
    /\ sens' = [sens EXCEPT !.at = "returned"]
    /\ UNCHANGED <<sim_args, sim_locals, args, out, seed, earlier>>

\* The settings the sidebar hands over (src/sidebar.py lines 176-191).
Settings(x, s1, s2, s3, n, m, steps) ==
    [top_x_percent |-> x, step1_keep |-> s1, step2_keep |-> s2, step3_keep |-> s3,
     n_rep |-> n, dist_method |-> m, criteria_settings |-> <<>>,
     apply_criteria_at_step2 |-> FALSE, workflow_steps |-> steps]

\* Baseline keep-counts, samples and correlation lists of the sweeps checked.
BaseKeeps == 1..(MaxN + 1)
SensSamples == {Ramp(MaxN), <<0>>, <<>>}
CorrelationLists == {<<>>, <<6>>, <<8, 6>>}

\* Every baseline of keep-counts over the largest sample.
KeepBaselines ==
    \E s1, s2, s3 \in BaseKeeps, steps \in {2, 3}, cs \in {<<>>, <<8, 6>>},
       luck \in {"always", "alternating"} :
      sens = SensCall(Ramp(MaxN), Table(MaxN),
                      Settings(50, s1, s2, s3, MaxRep, "lognormal", steps), cs, luck)

\* Every sample, method, correlation list and course of the draws, for two
\* baselines of keep-counts.
SampleBaselines ==
    \E data \in SensSamples, x \in {2, 50}, k \in {<<1, 1, 1>>, <<MaxN, 2, 1>>},
       m \in {"lognormal", "kde"}, steps \in {2, 3}, cs \in CorrelationLists,
       luck \in Lucks :
      sens = SensCall(data, Table(Len(data)),
                      Settings(x, k[1], k[2], k[3], MaxRep, m, steps), cs, luck)

InitSens ==
    /\ NoSimulation
    /\ args = NoCall
    /\ out = Pending
    /\ seed = NoSeed
    /\ earlier = Pending
    /\ KeepBaselines \/ SampleBaselines

NextSens == SensBegin \/ SensCandidate \/ SensCollect \/ SensReturn

SpecSens == InitSens /\ [][NextSens]_vars

\* ------------------------------------- two calls under the same random draws
\* numpy's random source, seeded, hands out the same draws in the same order,
\* and np.argsort is a function of its array.  seed[i] holds what the i-th
\* iteration of a call gets: the population generate_samples returns at
\* line 87, the noise it returns at lines 101 and 112, and which of two orders
\* np.argsort puts equal values in (by rising or by falling position).
TieOrdered(a, p, tie) ==
    \A i, j \in 1..Len(p) :
       (i < j /\ a[p[i] + 1] = a[p[j] + 1]) =>
           IF tie = "rising" THEN p[i] < p[j] ELSE p[i] > p[j]

\* The locals t of an iteration are those the draws e lead to.
Follows(t, e) ==
    /\ t.drawn_f = e.drawn_f
    /\ t.noise1 \in {<<>>, e.noise1}
    /\ t.noise2 \in {<<>>, e.noise2}
    /\ TieOrdered(t.assay_f, t.argsort_f, e.tie)
    /\ TieOrdered(t.assay_g, t.argsort_g, e.tie)
    /\ TieOrdered(t.assay_h, t.argsort_h, e.tie)

\* Lines 84-139 under a seeded random source.
IterateSeeded ==
    /\ seed # NoSeed
    /\ Iterate
    /\ Follows(trial', seed[rep'])

\* The caller calls simulate_workflow again, with the random source seeded as
\* before and top_x_percent the same or larger; what the first call came to
\* is kept for comparison.
Again ==
    /\ pc \in {"returned", "raised"}
    /\ seed # NoSeed
    /\ earlier = Pending
    /\ earlier' = [top_x_percent |-> top_x_percent, cutoff |-> cutoff, result |-> result]
    /\ \E x \in TopXs : x >= top_x_percent /\ top_x_percent' = x
    /\ pc' = "call"
    /\ rep' = 0
    /\ trial' = NoTrial
    /\ result' = Pending
    /\ UNCHANGED <<real_data, df, step1_keep, step2_keep, step3_keep, correlation,
                   n_rep, method, criteria_settings, apply_criteria, workflow_steps,
                   fitted_model, cutoff, success_count, success_counts,
                   args, out, sens, seed>>

\* The draws one iteration can get from a lognormal model, for keep-counts s1
\* and s2 and a sample of n values.
SeedEntries(n, s1, s2, steps) ==
    {[drawn_f |-> f, noise1 |-> n1, noise2 |-> n2, tie |-> tie]
     : f \in [1..n -> LognormVals], n1 \in [1..s1 -> LognormVals],
       n2 \in IF steps = 3 THEN [1..s2 -> LognormVals] ELSE {<<>>},
       tie \in {"rising", "falling"}}

\* The same value drawn throughout.
FlatEntries(n, s1, s2, steps) ==
    {[drawn_f |-> [i \in 1..n |-> v], noise1 |-> [i \in 1..s1 |-> v],
      noise2 |-> IF steps = 3 THEN [i \in 1..s2 |-> v] ELSE <<>>, tie |-> "rising"]
     : v \in LognormVals}

\* One-iteration calls on a sample of two values, with and without criteria
\* at the final step, the last keep-count zero included.
PairConfigs ==
    {Config(<<1, 2>>, Table(2), x, k[1], k[2], k[3], rho, 1, "lognormal", crit,
            crit # <<>>, steps)
     : x \in {1, 50}, k \in {<<2, 1, 1>>, <<1, 1, 1>>, <<2, 1, 0>>},
       rho \in Correlations, crit \in {<<>>, <<<<"Criteria1", ">=", 10>>>>},
       steps \in {2, 3}}

\* A call of several iterations, and a call that fails its checks.
LongPairConfigs ==
    {Config(<<1, 2>>, Table(2), 1, k[1], k[2], 1, 10, MaxRep, "lognormal", <<>>, FALSE, 2)
     : k \in {<<2, 1>>, <<1, 2>>}}

InitPair ==
    /\ Entry("call")
    /\ args = NoCall
    /\ out = Pending
    /\ sens = NoCall
    /\ earlier = Pending
    /\ \/ \E c \in PairConfigs :
            /\ Called(c)
            /\ \E e \in SeedEntries(2, c.step1_keep, c.step2_keep, c.workflow_steps) :
                  seed = <<e>>
       \/ \E c \in LongPairConfigs :
            /\ Called(c)
            /\ \E e \in SeedEntries(2, c.step1_keep, c.step2_keep, 2),
                  l \in FlatEntries(2, c.step1_keep, c.step2_keep, 2) :
                  seed = <<e>> \o [i \in 1..(MaxRep - 1) |-> l]

NextPair == Enter \/ IterateSeeded \/ Record \/ Finish \/ Again

SpecPair == InitPair /\ [][NextPair]_vars

\* -------------------------------------------- calculate_workflow_efficiency
\* Python floats are IEEE-754 doubles.  A positive double is the record
\* [m |-> limbs, e |-> e] standing for M * 2^e, where M, the 53-bit
\* significand (2^52 <= M < 2^53), is written in base 2^14 as four limbs,
\* least significant first.  Division and multiplication round to the nearest
\* double, halves to the even significand.
Base == 2^14

\* The float 0.0, which has no significand of 53 bits.
Zero == [m |-> <<0, 0, 0, 0>>, e |-> 0]

\* The float 1.0.
One == [m |-> <<0, 0, 0, 2^10>>, e |-> -52]

\* Little-endian digits of a sequence of columns with carries propagated.
RECURSIVE Propagate(_, _)
Propagate(cols, carry) ==
    IF cols = <<>> THEN (IF carry = 0 THEN <<>> ELSE <<carry>>)
    ELSE LET v == Head(cols) + carry
         IN  <<v % Base>> \o Propagate(Tail(cols), v \div Base)

\* The significand m at exponent e, rounded up by one unit if up is set; a
\* significand that reaches 2^53 becomes 2^52 at the next exponent.
Rounded(m, e, up) ==
    IF ~up THEN [m |-> m, e |-> e]
    ELSE LET p == Propagate(<<m[1] + 1, m[2], m[3]>>, 0)
             top == m[4] + (IF Len(p) > 3 THEN p[4] ELSE 0)
         IN  IF top = 2^11 THEN [m |-> <<0, 0, 0, 2^10>>, e |-> e + 1]
             ELSE [m |-> <<p[1], p[2], p[3], top>>, e |-> e]

\* floor(log2(a / b)) for positive integers a and b.
Log2Floor(a, b) ==
    CHOOSE e \in -12..12 :
       IF e >= 0 THEN 2^e * b <= a /\ a < 2^(e + 1) * b
       ELSE b <= 2^(-e) * a /\ 2^(-e) * a < 2 * b

\* The quotient of positive integers a and b as a float: it is developed to 53
\* bits by long division, limb by limb, and rounded on the remainder.
Quotient(a, b) ==
    LET e == Log2Floor(a, b)
        n == IF e >= 0 THEN a ELSE a * 2^(-e)
        d == IF e >= 0 THEN b * 2^e ELSE b
        q4 == (n * 2^10) \div d
        r4 == (n * 2^10) % d
        q3 == (r4 * Base) \div d
        r3 == (r4 * Base) % d
        q2 == (r3 * Base) \div d
        r2 == (r3 * Base) % d
        q1 == (r2 * Base) \div d
        r1 == (r2 * Base) % d
    IN  Rounded(<<q1, q2, q3, q4>>, e - 52,
                2 * r1 > d \/ (2 * r1 = d /\ q1 % 2 = 1))

\* a / b for integers a >= 0 and b > 0 (Python 3 true division).
Fdiv(a, b) == IF a = 0 THEN Zero ELSE Quotient(a, b)

\* The product of two significands: eight limbs.
Product(x, y) ==
    LET Term(i, c) == IF c + 1 - i \in 1..4 THEN x[i] * y[c + 1 - i] ELSE 0
        p == Propagate([c \in 1..7 |-> Term(1, c) + Term(2, c) + Term(3, c) + Term(4, c)],
                       0)
    IN  [c \in 1..9 |-> IF c <= Len(p) THEN p[c] ELSE 0]

\* x * y for positive floats: the 105- or 106-bit product of the significands
\* is cut to 53 bits and rounded on the bits cut off.
Fmul(x, y) ==
    LET p == Product(x.m, y.m)
        t == IF p[8] >= 2^7 THEN 11 ELSE 10
        q == [i \in 1..4 |-> (p[i + 3] \div 2^t) + (p[i + 4] % 2^t) * 2^(14 - t)]
        top == p[4] % 2^t
        low == p[1] # 0 \/ p[2] # 0 \/ p[3] # 0
        half == 2^(t - 1)
    IN  Rounded(q, x.e + y.e + 42 + t,
                top > half \/ (top = half /\ (low \/ q[1] % 2 = 1)))

\* Variant: a 2-step workflow, too, ends with step3_keep clones.
calculate_workflow_efficiency_FinalIsStep3(s1, s2, s3, steps) ==
    LET total_screened == s1
        final_selected == s3
    IN  IF final_selected = 0 \/ s1 = 0 \/ (steps = 3 /\ s2 = 0)
        THEN Raise("division by zero")
        ELSE Return([reduction_ratio |-> Fdiv(total_screened, final_selected),
                     step1_efficiency |-> Fdiv(s2, s1),
                     step2_efficiency |->
                         IF steps = 3 THEN Fdiv(s3, s2) ELSE One,
                     overall_efficiency |-> Fdiv(final_selected, total_screened)])

\* Lines 215-227, for keep-counts >= 0.  A division by 0 raises.
calculate_workflow_efficiency(s1, s2, s3, steps) ==
    LET total_screened == s1
        final_selected == IF steps = 3 THEN s3 ELSE s2
    IN  IF final_selected = 0 \/ s1 = 0 \/ (steps = 3 /\ s2 = 0)
        THEN Raise("division by zero")
        ELSE Return([reduction_ratio |-> Fdiv(total_screened, final_selected),
                     step1_efficiency |-> Fdiv(s2, s1),
                     step2_efficiency |->
                         IF steps = 3 THEN Fdiv(s3, s2) ELSE One,
                     overall_efficiency |-> Fdiv(final_selected, total_screened)])

\* Largest keep-count of the calls of calculate_workflow_efficiency checked.
MaxKeep == 11

InitEff ==
    /\ Idle
    /\ \E s1, s2, s3 \in 0..MaxKeep, steps \in {2, 3} :
          args = [fn |-> "calculate_workflow_efficiency", step1_keep |-> s1,
                  step2_keep |-> s2, step3_keep |-> s3, workflow_steps |-> steps]
    /\ out = Pending

CallEff ==
    /\ out = Pending
    /\ args.fn = "calculate_workflow_efficiency"
    /\ out' = calculate_workflow_efficiency(args.step1_keep, args.step2_keep,
                                            args.step3_keep, args.workflow_steps)
    /\ UNCHANGED <<sim_args, sim_locals, args, sens, seed, earlier>>

NextEff == CallEff

SpecEff == InitEff /\ [][NextEff]_vars

\* ===================================================================== claims

\* The messages of the four precondition checks (lines 63-73).
ConfigErrors ==
    {"No valid data provided", "Step 1 keep cannot exceed data size",
     "Step 2 keep cannot exceed step 1 keep", "Step 3 keep cannot exceed step 2 keep"}

\* The configuration violates one of the four stated constraints.
Invalid ==
    \/ Len(real_data) = 0
    \/ step1_keep > Len(real_data)
    \/ step2_keep > step1_keep
    \/ workflow_steps = 3 /\ step3_keep > step2_keep

\* C1: a call whose sample is empty, or whose step1_keep exceeds the sample
\* size, or whose step2_keep exceeds step1_keep (two or three steps), or whose
\* step3_keep exceeds step2_keep in three steps, is rejected with the error of
\* a precondition check before any model is fitted or any iteration runs; a
\* call that meets the four constraints (step1_keep = sample size included)
\* is not rejected by a precondition check.
C1_RejectedBeforeAnyTrial ==
    pc # "call" =>
       /\ Invalid =>
             /\ pc = "raised"
             /\ ~result.ok
             /\ result.error \in ConfigErrors
             /\ rep = 0
             /\ trial = NoTrial
             /\ fitted_model = NoModel
             /\ success_counts = <<>>
       /\ ~Invalid => ~(pc = "raised" /\ result.error \in ConfigErrors)

\* A two-step call with step2_keep above step1_keep and step1_keep equal to
\* the sample size has been rejected.
C1_Witness ==
    /\ pc = "raised"
    /\ workflow_steps = 2
    /\ Len(real_data) > 0
    /\ step1_keep = Len(real_data)
    /\ step2_keep > step1_keep

\* The number of recorded success counts that equal the final keep-count.
FullySuccessful ==
    Cardinality({i \in 1..Len(success_counts) : success_counts[i] = step3_keep})

\* C2: the probability returned is the number of fully successful iterations
\* over the nominal n_rep, whatever number of iterations was abandoned, and 0
\* when n_rep is 0.
C2_ProbabilityOverNominalReps ==
    pc = "returned" =>
       result.value.success_probability =
           IF n_rep > 0 THEN <<FullySuccessful, n_rep>> ELSE <<0, 1>>

\* A call of two repetitions returned after one abandoned iteration and one
\* fully successful one: the probability is 1/2, not 1/1.
C2_Witness ==
    /\ pc = "returned"
    /\ n_rep = 2
    /\ Len(success_counts) = 1
    /\ success_count = 1
    /\ result.value.success_probability = <<1, 2>>

\* C3: fully successful iterations <= recorded success counts <= iterations
\* started <= n_rep at every moment, so the probability returned is in [0, 1].
C3_CountsOrdered ==
    /\ 0 <= success_count
    /\ success_count <= Len(success_counts)
    /\ Len(success_counts) <= rep
    /\ rep <= n_rep
    /\ pc = "returned" =>
          LET pr == result.value.success_probability
          IN  pr[2] > 0 /\ 0 <= pr[1] /\ pr[1] <= pr[2]

\* A call returned with fewer successes than recorded counts.
C3_Witness ==
    /\ pc = "returned"
    /\ success_count = 1
    /\ Len(success_counts) = 2
    /\ rep = 2

\* The fit of line 76 fails: the method is lognormal and the sample holds no
\* value above zero.
FitFails == method = "lognormal" /\ \A i \in 1..Len(real_data) : real_data[i] <= 0

\* C4 as stated: once the four precondition checks have passed, the call
\* raises nothing and returns a result (after its n_rep iterations).
C4_ReturnsOncePreconditionsPass ==
    /\ (pc # "call" /\ ~Invalid) => pc # "raised"
    /\ pc = "returned" => result.ok /\ rep = n_rep

\* C4, amended: a call raises only before its first iteration, and then
\* because a precondition check failed or because the lognormal fit of line 76
\* found no positive value in the sample; once the loop is entered an
\* exception inside an iteration never leaves the call: the iteration records
\* nothing, the loop goes on (a step is always possible until the call has
\* returned), and the call returns a result after n_rep iterations.
C4_TrialFailuresSwallowed ==
    /\ [][(pc = "trial" /\ trial.outcome = "error") =>
            /\ pc' = "loop"
            /\ success_count' = success_count
            /\ success_counts' = success_counts
            /\ result' = Pending]_vars
    /\ [](pc = "raised" =>
            /\ rep = 0 /\ trial = NoTrial
            /\ ~result.ok
            /\ Invalid \/ FitFails)
    /\ []((pc # "call" /\ ~Invalid /\ ~FitFails) => pc # "raised")
    /\ [](pc = "returned" => result.ok /\ rep = n_rep)
    /\ [](pc \in {"loop", "trial"} => ENABLED Next)

\* The second iteration of a call failed in the criteria filter at the final
\* step.
C4_Witness ==
    /\ pc = "trial"
    /\ rep = 2
    /\ trial.outcome = "error"
    /\ trial.error = "Unsupported operator"
    /\ apply_criteria

\* Row r of the table passes the criteria of the call.
RowPasses(r) ==
    LET f == apply_criteria_filter(df, criteria_settings, <<r>>)
    IN  f.ok /\ f.value[1]

\* The table rows of the final survivors of the iteration in progress.
FinalRows ==
    IF workflow_steps = 3
    THEN Take(trial.top1_idx, Take(trial.top2_idx, trial.final_idx))
    ELSE Take(trial.top1_idx, trial.final_idx)

\* C5: with criteria at the final step, an iteration adds to the success
\* counts or to the successes only if every one of its final survivors passes
\* the criteria; if one fails, it records nothing.
C5_AllOrNothingGate ==
    [][(pc = "trial" /\ apply_criteria
        /\ (success_counts' # success_counts \/ success_count' # success_count)) =>
            /\ trial.outcome = "completed"
            /\ Len(trial.final_idx) > 0 => Len(FinalRows) = Len(trial.final_idx)
            /\ \A i \in 1..Len(FinalRows) : RowPasses(FinalRows[i])]_vars

\* An iteration with two final survivors, one passing and one failing the
\* criteria, was skipped.
C5_Witness ==
    /\ pc = "trial"
    /\ apply_criteria
    /\ trial.outcome = "skipped"
    /\ Len(trial.mask) = 2
    /\ \E i, j \in 1..2 : trial.mask[i] /\ ~trial.mask[j]

\* ------------------------------------------------ claims on the Criteria Filter
FilterCalled == args.fn = "apply_criteria_filter" /\ out # Pending

\* What the operators mean, stated on one value.
Meets(v, op, thresh) ==
    \/ op = ">=" /\ v >= thresh
    \/ op = "<=" /\ v <= thresh
    \/ op = "=" /\ thresh - Epsilon < v /\ v < thresh + Epsilon

\* Criterion k of the call names a column of the table of the call.
Known(k) == args.criteria_settings[k][1] \in DOMAIN args.df.columns

\* C6: the mask returned has the length of row_indices, and mask[i] is true
\* iff row row_indices[i] meets every criterion whose column is in the table;
\* a list whose columns are all absent (the empty list included) gives an
\* all-true mask.
C6_MaskIsConjunction ==
    FilterCalled =>
       LET cs == args.criteria_settings
           ix == args.indices
       IN  /\ out.ok =>
                /\ Len(out.value) = Len(ix)
                /\ \A i \in 1..Len(ix) :
                      out.value[i] <=>
                         \A k \in 1..Len(cs) :
                            Known(k) =>
                               Meets(args.df.columns[cs[k][1]][ix[i] + 1],
                                     cs[k][2], cs[k][3])
           /\ (\A k \in 1..Len(cs) : ~Known(k)) =>
                 out.ok /\ \A i \in 1..Len(out.value) : out.value[i]

\* A mask with a true and a false entry came from two criteria, one on a
\* column that is absent.
C6_Witness ==
    /\ FilterCalled
    /\ out.ok
    /\ Len(args.criteria_settings) = 2
    /\ Known(1) /\ ~Known(2)
    /\ Len(out.value) = 2
    /\ out.value[1] /\ ~out.value[2]

Unsupported(k) == args.criteria_settings[k][2] \notin {">=", "<=", "="}
UnsupportedOperatorError == ~out.ok /\ out.error = "Unsupported operator"
RowsInTable == \A i \in 1..Len(args.indices) : args.indices[i] < args.df.nrows

\* C7 as stated: every criteria list that holds a criterion with an operator
\* outside {>=, <=, =} fails with the unsupported-operator error.
C7_AnyUnsupportedOperatorFails ==
    (FilterCalled /\ \E k \in 1..Len(args.criteria_settings) : Unsupported(k))
       => UnsupportedOperatorError

\* C7 amended: for row indices inside the table, the call fails with the
\* unsupported-operator error iff the list holds a criterion with an operator
\* outside {>=, <=, =} on a column that is in the table; an unsupported
\* operator on an absent column is never looked at.
C7_UnsupportedOperatorOnKnownColumn ==
    (FilterCalled /\ RowsInTable) =>
       (UnsupportedOperatorError <=>
           \E k \in 1..Len(args.criteria_settings) : Known(k) /\ Unsupported(k))

\* A list with an unsupported operator on an absent column returned a mask.
C7_Witness ==
    /\ FilterCalled
    /\ RowsInTable
    /\ \E k \in 1..Len(args.criteria_settings) : Unsupported(k) /\ ~Known(k)
    /\ out.ok
    /\ Len(out.value) > 0

\* ---------------------------------- claims on the fitter and the generator
GenerateCalled == args.fn = "generate_samples" /\ out # Pending
FitCalled == args.fn = "fit_lognormal" /\ out # Pending

NoValueAboveZero == \A i \in 1..Len(args.data) : args.data[i] <= 0
UnsupportedMethodError == ~out.ok /\ out.error = "Unsupported distribution method"
NoValidDataError == ~out.ok /\ out.error = "No valid data points for sample generation"
NoPositiveDataError == ~out.ok /\ out.error = "No positive data points for lognormal fitting"

\* C8 as stated: every method outside {lognormal, kde} fails with the
\* unsupported-method error, whatever the data and the model supplied.
C8_UnknownMethodAlwaysUnsupported ==
    (GenerateCalled /\ args.method \notin {"lognormal", "kde"})
       => UnsupportedMethodError

\* C8 amended: every method outside {lognormal, kde} fails, whatever the
\* model supplied: with the unsupported-method error when the data holds a
\* value > 0, and with the invalid-data error when it holds none.
C8_UnknownMethodFails ==
    (GenerateCalled /\ args.method \notin {"lognormal", "kde"}) =>
       IF NoValueAboveZero THEN NoValidDataError ELSE UnsupportedMethodError

\* An unknown method on data without a positive value failed with the
\* invalid-data error.
C8_Witness ==
    /\ GenerateCalled
    /\ args.method \notin {"lognormal", "kde"}
    /\ Len(args.data) > 0
    /\ NoValueAboveZero
    /\ NoValidDataError

\* C9 as stated: on the kde path data of non-positive values only is not
\* rejected as empty.
C9_KdeKeepsNonPositive ==
    (GenerateCalled /\ args.method = "kde" /\ Len(args.data) > 0 /\ NoValueAboveZero)
       => ~NoValidDataError

\* C9 amended: the values <= 0 are discarded before the branch on the method,
\* so on the kde path too data without a value > 0 is rejected with the
\* invalid-data error, and no sample is drawn from it.
C9_KdeDiscardsNonPositive ==
    (GenerateCalled /\ args.method = "kde" /\ NoValueAboveZero) => NoValidDataError

\* A kde call on two non-positive values was rejected as empty.
C9_Witness ==
    /\ GenerateCalled
    /\ args.method = "kde"
    /\ Len(args.data) = 2
    /\ NoValueAboveZero
    /\ NoValidDataError

\* C10: fit_lognormal, and generate_samples with method lognormal, fail with
\* the invalid-data error exactly when the data holds no value > 0; with a
\* value > 0 they return.
C10_InvalidDataIffNoPositive ==
    /\ FitCalled => (NoPositiveDataError <=> NoValueAboveZero)
                    /\ (~NoValueAboveZero => out.ok)
    /\ (GenerateCalled /\ args.method = "lognormal") =>
          (NoValidDataError <=> NoValueAboveZero) /\ (~NoValueAboveZero => out.ok)

\* A lognormal draw without a supplied model returned for data that mixes a
\* non-positive and a positive value.
C10_Witness ==
    /\ GenerateCalled
    /\ args.method = "lognormal"
    /\ args.fitted_model = NoModel
    /\ \E i, j \in 1..Len(args.data) : args.data[i] <= 0 /\ args.data[j] > 0
    /\ out.ok
    /\ Len(out.value) > 0


\* --------------------------------------------- claims on the sensitivity sweep
SweepStarted == sens.fn = "run_sensitivity_analysis" /\ sens.at # "called"
SweepCalled == sens.fn = "run_sensitivity_analysis" /\ sens.call # NoCall
SweepReturned == sens.fn = "run_sensitivity_analysis" /\ sens.at = "returned"

\* The baseline keeps its keep-counts in order.
BaselineOrdered ==
    /\ sens.settings.step2_keep <= sens.settings.step1_keep
    /\ sens.settings.step3_keep <= sens.settings.step2_keep

\* C11: given a baseline with step2_keep <= step1_keep and
\* step3_keep <= step2_keep, every configuration the sweep passes to
\* simulate_workflow has step2_keep <= step1_keep and step3_keep <= step2_keep.
C11_CandidateKeepsOrdered ==
    (SweepCalled /\ BaselineOrdered) =>
        /\ sens.call.step2_keep <= sens.call.step1_keep
        /\ sens.call.step3_keep <= sens.call.step2_keep

\* The candidate just evaluated, and what it was recorded as.
Evaluated == sens.fn = "run_sensitivity_analysis" /\ sens.at = "sweep" /\ sens.done > 0
CandidateStep == sens'.done = sens.done + 1

\* C12: a failure of simulate_workflow for a candidate never leaves the sweep
\* and never ends it: the candidate is recorded as probability 0, a successful
\* one as the probability returned, each appended in the order of the values;
\* the sweep goes on until every parameter is collected, and every collected
\* parameter has as many probabilities as values.
C12_CandidateFailuresSwallowed ==
    /\ [](sens.fn = "run_sensitivity_analysis" =>
              /\ sens.at \in {"called", "sweep", "returned"}
              /\ ~sens.raised)
    /\ [][CandidateStep =>
            LET name == ParamNames[sens.param]
            IN  /\ sens'.at = "sweep"
                /\ sens'.param = sens.param
                /\ sens'.call[name] = sens.param_ranges[name][sens'.done]
                /\ Len(sens'.probabilities) = sens'.done
                /\ SubSeq(sens'.probabilities, 1, sens.done) = sens.probabilities
                /\ ~sens'.outcome.ok => sens'.probabilities[sens'.done] = <<0, 1>>
                /\ sens'.outcome.ok =>
                      sens'.probabilities[sens'.done] =
                          sens'.outcome.value.success_probability]_vars
    /\ [](sens.fn = "run_sensitivity_analysis" /\ sens.at \in {"called", "sweep"}
              => ENABLED NextSens)
    /\ [](SweepStarted =>
              \A name \in DOMAIN sens.sensitivity_results :
                 /\ sens.sensitivity_results[name].values = sens.param_ranges[name]
                 /\ Len(sens.sensitivity_results[name].probabilities)
                        = Len(sens.sensitivity_results[name].values))
    /\ [](SweepReturned =>
              DOMAIN sens.sensitivity_results = {ParamNames[i] : i \in 1..Len(ParamNames)})

\* A sweep has returned in which the largest step1_keep candidate was rejected
\* by simulate_workflow and recorded as 0, and the candidates after it were
\* still evaluated, with success.
C12_Witness ==
    /\ SweepReturned
    /\ sens.luck = "always"
    /\ sens.results = Ramp(MaxN)
    /\ sens.param_ranges.step1_keep[5] > Len(sens.results)
    /\ sens.sensitivity_results["step1_keep"].probabilities[5] = <<0, 1>>
    /\ sens.sensitivity_results["top_x_percent"].probabilities[1] = <<SensReps, SensReps>>

\* The candidates of the two keep-counts, with the multiplier of each in
\* quarters.
Quarters == <<2, 3, 4, 5, 6>>
KeepNames == {"step1_keep", "step2_keep"}

\* C13 as stated: each keep-count has five candidates, the k-th the integer
\* nearest to (Quarters[k] / 4) times the baseline (however halves are rounded).
C13_CandidatesRounded ==
    SweepStarted =>
        \A name \in KeepNames :
           /\ Len(sens.param_ranges[name]) = 5
           /\ \A k \in 1..5 :
                 LET exact4 == Quarters[k] * sens.settings[name]
                     c4 == 4 * sens.param_ranges[name][k]
                 IN  c4 - exact4 <= 2 /\ exact4 - c4 <= 2

\* C13, amended: each keep-count has five candidates, the k-th the largest
\* integer not above (Quarters[k] / 4) times the baseline (truncation).
C13_CandidatesTruncated ==
    SweepStarted =>
        \A name \in KeepNames :
           /\ Len(sens.param_ranges[name]) = 5
           /\ \A k \in 1..5 :
                 LET exact4 == Quarters[k] * sens.settings[name]
                     c4 == 4 * sens.param_ranges[name][k]
                 IN  c4 <= exact4 /\ exact4 < c4 + 4

\* The sweep of a baseline step1_keep of 3 is under way: 3.75 gave 3 and 4.5
\* gave 4.
C13_Witness ==
    /\ SweepStarted
    /\ sens.settings.step1_keep = 3
    /\ sens.param_ranges.step1_keep = <<1, 2, 3, 3, 4>>
    /\ sens.param = 1
    /\ sens.done = 5

\* C14: the sweep of top_x_percent tests 1, 2, 5, 10, 15, in that order,
\* whatever the baseline: these are its values, the k-th call of that sweep
\* has the k-th of them as top_x_percent, and they are the values reported.
C14_TopXValuesFixed ==
    /\ SweepStarted => sens.param_ranges.top_x_percent = <<1, 2, 5, 10, 15>>
    /\ (Evaluated /\ sens.param = 3) =>
           sens.call.top_x_percent = <<1, 2, 5, 10, 15>>[sens.done]
    /\ SweepReturned =>
           sens.sensitivity_results["top_x_percent"].values = <<1, 2, 5, 10, 15>>

\* A sweep from a baseline top_x_percent of 50 has returned.
C14_Witness ==
    /\ SweepReturned
    /\ sens.settings.top_x_percent = 50
    /\ Len(sens.sensitivity_results["top_x_percent"].probabilities) = 5

\* C15: every call of simulate_workflow made by the sweep runs 1000 trials,
\* whatever the baseline n_rep, with the first correlation of the list
\* supplied, or 0.5 when the list is empty.
C15_FixedRepsAndCorrelation ==
    SweepCalled =>
        /\ sens.call.n_rep = 1000
        /\ sens.correlations # <<>> => sens.call.correlation = Head(sens.correlations)
        /\ sens.correlations = <<>> => sens.call.correlation = 5

\* A call of the step2_keep sweep was made from a baseline n_rep other than
\* 1000 and a list of two correlations.
C15_Witness ==
    /\ SweepCalled
    /\ sens.param = 2
    /\ sens.done = 3
    /\ sens.settings.n_rep # 1000
    /\ Len(sens.correlations) = 2
    /\ sens.call.correlation = 8
    /\ sens.call.n_rep = 1000


\* ------------------------------------- claims on two calls under the same draws
\* The second call is over.
SecondOver == earlier # Pending /\ pc \in {"returned", "raised"}

Leq(p, q) == p[1] * q[2] <= q[1] * p[2]

\* C17: with the sample, the other parameters and the draws the same, a call
\* with top_x_percent the same or larger has a cutoff no larger, records for
\* each iteration a success count no smaller, and returns a success
\* probability no smaller.
C17_MonotoneInTopX ==
    (SecondOver /\ pc = "returned") =>
        /\ cutoff <= earlier.cutoff
        /\ Len(result.value.success_counts) = Len(earlier.result.value.success_counts)
        /\ \A i \in 1..Len(result.value.success_counts) :
              result.value.success_counts[i] >= earlier.result.value.success_counts[i]
        /\ Leq(earlier.result.value.success_probability, result.value.success_probability)


\* ------------------------------------------------------- the = operator
\* A call with the one criterion Criteria1 = thresh, on rows of the table.
EqualityCall ==
    /\ FilterCalled
    /\ Len(args.criteria_settings) = 1
    /\ args.criteria_settings[1][1] = "Criteria1"
    /\ args.criteria_settings[1][2] = "="
    /\ RowsInTable

\* C18: under the one criterion `column = thresh`, a row passes iff its value
\* is less than 1e-10 (10 units) away from thresh: a value 1e-11 (1 unit) away
\* passes, a value 1e-9 (100 units) away fails, and so does one 1e-10 away.
C18_EpsilonEquality ==
    EqualityCall =>
        /\ out.ok
        /\ \A i \in 1..Len(args.indices) :
              LET v == args.df.columns["Criteria1"][args.indices[i] + 1]
                  thresh == args.criteria_settings[1][3]
                  away == IF v >= thresh THEN v - thresh ELSE thresh - v
              IN  /\ away = 1 => out.value[i]
                  /\ away = 100 => ~out.value[i]
                  /\ out.value[i] <=> away < 10

\* A value 1e-11 away from the threshold passed and a value 1e-9 away failed.
C18_Witness ==
    /\ EqualityCall
    /\ args.criteria_settings[1][3] = 0
    /\ Len(args.indices) = 2
    /\ args.df.columns["Criteria1"][args.indices[1] + 1] = 1
    /\ args.df.columns["Criteria1"][args.indices[2] + 1] = 100
    /\ out.value = <<TRUE, FALSE>>

\* ------------------------------------------------- claims on the third stage
\* The iteration in progress has measured its third stage.
Stage3Measured == pc = "trial" /\ workflow_steps = 3 /\ trial.assay_h # <<>>

\* C19 as stated: the stage-3 measurement of survivor i is
\* rho * (its stage-2 measurement) + sqrt(1 - rho^2) * noise2[i], with
\* step2_keep noise values.  (assay_g and assay_h are in tenths, rho and the
\* square root in tenths: both sides are in hundredths.)
C19_Stage3MixesStage2 ==
    Stage3Measured =>
        /\ Len(trial.noise2) = step2_keep
        /\ Len(trial.assay_h) = Len(trial.top2_idx)
        /\ \A i \in 1..Len(trial.assay_h) :
              10 * trial.assay_h[i] =
                  correlation * trial.assay_g[trial.top2_idx[i] + 1]
                  + 10 * SqrtOneMinusSq(correlation) * trial.noise2[i]

\* C19, amended: the stage-3 measurement of survivor i is
\* rho * (its stage-1 value) + sqrt(1 - rho^2) * noise2[i], with step2_keep
\* noise values.
C19_Stage3MixesStage1 ==
    Stage3Measured =>
        /\ Len(trial.noise2) = step2_keep
        /\ Len(trial.assay_h) = Len(trial.top2_idx)
        /\ \A i \in 1..Len(trial.assay_h) :
              trial.assay_h[i] =
                  correlation * trial.top1_f[trial.top2_idx[i] + 1]
                  + SqrtOneMinusSq(correlation) * trial.noise2[i]

\* A third stage was measured for two survivors whose stage-2 measurements
\* differ from their stage-1 values.
C19_Witness ==
    /\ Stage3Measured
    /\ Len(trial.assay_h) = 2
    /\ correlation = 6
    /\ \A i \in 1..2 :
          trial.assay_g[trial.top2_idx[i] + 1] # 10 * trial.top1_f[trial.top2_idx[i] + 1]

\* ------------------------------------------- claims on the rows of the gate
\* The iteration in progress reached the criteria gate of the final step.
Gated == pc = "trial" /\ apply_criteria /\ trial.final_idx # <<>>

\* C20: the rows handed to the filter at the final step are the positions of
\* the final survivors in the population drawn at line 87, composed from the
\* selections (top1_idx of top2_idx of final_idx in three steps, top1_idx of
\* final_idx in two): one per survivor, each in 0..N-1, each the position of
\* the value scored for that survivor, and the mask returned is about them.
C20_GateRowsAreSurvivorRows ==
    Gated =>
        LET rows == trial.original_indices
        IN  /\ Len(rows) = Len(trial.final_idx)
            /\ Len(rows) = Len(trial.final_scores)
            /\ \A i \in 1..Len(rows) :
                  /\ rows[i] \in 0..(Len(real_data) - 1)
                  /\ rows[i] =
                       IF workflow_steps = 3
                       THEN trial.top1_idx[trial.top2_idx[trial.final_idx[i] + 1] + 1]
                       ELSE trial.top1_idx[trial.final_idx[i] + 1]
                  /\ trial.final_scores[i] = trial.drawn_f[rows[i] + 1]
            /\ trial.mask # <<>> =>
                  /\ Len(trial.mask) = Len(rows)
                  /\ \A i \in 1..Len(rows) : trial.mask[i] <=> RowPasses(rows[i])

\* A three-step iteration was gated on a row that is not the position of the
\* survivor in the final selection.
C20_Witness ==
    /\ Gated
    /\ workflow_steps = 3
    /\ criteria_settings # <<>>
    /\ trial.outcome = "completed"
    /\ trial.original_indices # trial.final_idx


\* ------------------------------------------- claims on the survivor sets
\* The iteration in progress ran to the count of successes.
Completed == pc = "trial" /\ trial.outcome = "completed"

PositionsOf(idx) == {idx[i] : i \in 1..Len(idx)}
Distinct(idx) == \A i, j \in 1..Len(idx) : i # j => idx[i] # idx[j]
\* idx selects positions of the array a.
Within(idx, a) == \A i \in 1..Len(idx) : idx[i] \in 0..(Len(a) - 1)
\* Every position idx selects measures at least what every position of a
\* left out measures.
Dominates(idx, a) ==
    \A i \in 1..Len(idx), j \in 0..(Len(a) - 1) :
       j \notin PositionsOf(idx) => a[idx[i] + 1] >= a[j + 1]

\* C21: in every completed iteration of an accepted configuration the
\* stage-1, stage-2 and final selections hold exactly step1_keep, step2_keep
\* and step3_keep distinct positions, each selection is taken from the
\* survivors of the stage before, and every position selected measures at
\* least what every position left out measures at that stage.
C21_SurvivorSetsSized ==
    Completed =>
        /\ Len(trial.top1_idx) = step1_keep
        /\ Distinct(trial.top1_idx)
        /\ Within(trial.top1_idx, trial.assay_f)
        /\ Dominates(trial.top1_idx, trial.assay_f)
        /\ Len(trial.top2_idx) = step2_keep
        /\ Distinct(trial.top2_idx)
        /\ Within(trial.top2_idx, trial.top1_idx)
        /\ Dominates(trial.top2_idx, trial.assay_g)
        /\ Len(trial.final_idx) = step3_keep
        /\ Distinct(trial.final_idx)
        /\ IF workflow_steps = 3
           THEN /\ Within(trial.final_idx, trial.top2_idx)
                /\ Dominates(trial.final_idx, trial.assay_h)
           ELSE /\ PositionsOf(trial.final_idx) \subseteq PositionsOf(trial.top2_idx)
                /\ Dominates(trial.final_idx, trial.assay_g)

\* ------------------------------------------- claims on the success count
\* Every final score of the iteration reaches the cutoff.
AllFinalReach ==
    \A i \in 1..Len(trial.final_scores) : 100 * trial.final_scores[i] >= cutoff

\* C22: every count recorded lies in 0..step3_keep, a completed iteration is
\* counted as fully successful iff all of its final survivors score at least
\* the cutoff, and the cutoff is the percentile of line 82 in every iteration.
C22_CountWithinFinalKeep ==
    pc \in {"loop", "trial", "returned"} =>
        /\ \A i \in 1..Len(success_counts) : success_counts[i] \in 0..step3_keep
        /\ cutoff = Percentile100(real_data, 100 - top_x_percent)
        /\ Completed =>
              /\ trial.count_success \in 0..step3_keep
              /\ Succeeded(trial) <=> AllFinalReach

\* ------------------------------------------- claims on the value scored
\* The positions, in the stage-1 vector, of the final survivors.
FinalPositions ==
    IF workflow_steps = 3
    THEN Take(trial.top1_idx, Take(trial.top2_idx, trial.final_idx))
    ELSE Take(trial.top1_idx, trial.final_idx)

\* C23: the value compared with the cutoff for a final survivor is the
\* stage-1 measurement of that same clone, carried unchanged through the
\* selections, in two-step and in three-step workflows.
C23_ScoreIsOwnStage1Value ==
    Completed =>
        /\ trial.top1_f = Take(trial.assay_f, trial.top1_idx)
        /\ trial.top2_f = Take(trial.top1_f, trial.top2_idx)
        /\ Len(trial.final_scores) = Len(trial.final_idx)
        /\ \A i \in 1..Len(trial.final_idx) :
              trial.final_scores[i] = trial.assay_f[FinalPositions[i] + 1]
        /\ trial.count_success =
              Cardinality({i \in 1..Len(trial.final_idx) :
                             100 * trial.assay_f[FinalPositions[i] + 1] >= cutoff})

\* A three-step iteration completed with a final survivor whose score is
\* neither its stage-2 nor its stage-3 measurement, nor the stage-1 value at
\* its position in the final selection.
C23_Witness ==
    /\ Completed
    /\ workflow_steps = 3
    /\ \E i \in 1..Len(trial.final_idx) :
          /\ 10 * trial.final_scores[i] # trial.assay_h[trial.final_idx[i] + 1]
          /\ 10 * trial.final_scores[i] #
                 trial.assay_g[trial.top2_idx[trial.final_idx[i] + 1] + 1]
          /\ trial.final_scores[i] # trial.assay_f[trial.final_idx[i] + 1]

\* ------------------------------------------- claims on the up-front filter
\* C24: without final-step gating the stage-1 vector is the draw reduced to
\* the rows that pass the criteria over all rows of the table, an iteration
\* with fewer than step1_keep such rows is skipped before any ranking, and
\* the criteria are not evaluated at the final step; with final-step gating
\* the stage-1 vector is the whole draw.
C24_CriteriaUpfrontOrFinal ==
    pc = "trial" =>
        IF apply_criteria
        THEN trial.filter_mask = <<>> /\ trial.assay_f = trial.drawn_f
        ELSE /\ trial.mask = <<>>
             /\ trial.original_indices = <<>>
             /\ trial.outcome \in {"completed", "skipped"} =>
                   /\ Len(trial.filter_mask) = Len_df(df)
                   /\ \A r \in 0..(Len_df(df) - 1) :
                         trial.filter_mask[r + 1] <=> RowPasses(r)
                   /\ trial.assay_f = Compress(trial.drawn_f, trial.filter_mask)
                   /\ Len(trial.assay_f) < step1_keep =>
                         /\ trial.outcome = "skipped"
                         /\ trial.argsort_f = <<>>
                         /\ trial.noise1 = <<>>

\* An iteration was skipped because the criteria, applied up front, left
\* fewer rows than step1_keep.
C24_Witness ==
    /\ pc = "trial"
    /\ ~apply_criteria
    /\ trial.outcome = "skipped"
    /\ \E r \in 1..Len(trial.filter_mask) : ~trial.filter_mask[r]
    /\ \E r \in 1..Len(trial.filter_mask) : trial.filter_mask[r]
    /\ Len(trial.assay_f) < step1_keep

\* ------------------------------------- claims on the two-step final selection
\* A two-step iteration made its final selection.
TwoStepFinal ==
    pc = "trial" /\ workflow_steps = 2 /\ (trial.outcome = "completed" \/ trial.mask # <<>>)

\* C25: in a two-step workflow the final selection is the top step3_keep of
\* the stage-2 measurements, scored by the stage-1 values; with
\* step3_keep = step2_keep it is the stage-2 selection, scores included.
C25_TwoStepFinalIsStage2 ==
    TwoStepFinal =>
        /\ \E q \in Argsort(trial.assay_g) : trial.final_idx = LastK(q, step3_keep)
        /\ trial.final_scores = Take(trial.top1_f, trial.final_idx)
        /\ step3_keep = step2_keep =>
              /\ trial.final_idx = trial.top2_idx
              /\ trial.final_scores = trial.top2_f

\* A two-step iteration with step3_keep = step2_keep completed on stage-2
\* measurements that tie, its final survivors being its stage-2 survivors.
C25_Witness ==
    /\ TwoStepFinal
    /\ trial.outcome = "completed"
    /\ step3_keep = step2_keep
    /\ Len(trial.assay_g) >= 2
    /\ trial.assay_g[1] = trial.assay_g[2]
    /\ trial.final_idx # <<>>
    /\ trial.final_idx = trial.top2_idx

\* ------------------------------------- claims on the candidate configurations
\* The candidate evaluated last: its parameter and its value.
LastName == ParamNames[sens.param]
LastValue == sens.param_ranges[LastName][sens.done]

\* C26: run_sensitivity_analysis never changes the caller's settings, and the
\* configuration of every candidate is the caller's baseline with the swept
\* parameter overridden and the keep-counts after it clamped, whatever the
\* candidates before it were.
C26_CandidatesFromBaselineAlone ==
    /\ [][sens'.settings = sens.settings]_vars
    /\ [](Evaluated =>
            LET base == sens.settings
                c == sens.call
                s2 == CASE LastName = "step2_keep" -> LastValue
                        [] LastName = "step1_keep" -> Min(base.step2_keep, LastValue)
                        [] OTHER -> base.step2_keep
            IN  /\ sens.base_settings = base
                /\ c.real_data = sens.results
                /\ c.df = sens.df
                /\ c.top_x_percent =
                      IF LastName = "top_x_percent" THEN LastValue ELSE base.top_x_percent
                /\ c.step1_keep =
                      IF LastName = "step1_keep" THEN LastValue ELSE base.step1_keep
                /\ c.step2_keep = s2
                /\ c.step3_keep =
                      IF LastName = "top_x_percent" THEN base.step3_keep
                      ELSE Min(base.step3_keep, s2)
                /\ c.method = base.dist_method
                /\ c.criteria_settings = base.criteria_settings
                /\ c.apply_criteria = base.apply_criteria_at_step2
                /\ c.workflow_steps = base.workflow_steps)

\* A candidate of the top_x_percent sweep ran with the keep-counts of the
\* baseline, after candidates of the step1_keep sweep had clamped theirs.
C26_Witness ==
    /\ Evaluated
    /\ LastName = "top_x_percent"
    /\ sens.param_ranges["step1_keep"][1] < sens.settings.step2_keep
    /\ sens.call.step2_keep = sens.settings.step2_keep
    /\ sens.call.step3_keep = sens.settings.step3_keep
    /\ sens.settings.step3_keep > 1

\* C27: for a two-step baseline with step3_keep = step2_keep, every
\* configuration passed to simulate_workflow has step3_keep = step2_keep.
C27_TwoStepAliasKept ==
    (/\ Evaluated
     /\ sens.settings.workflow_steps = 2
     /\ sens.settings.step3_keep = sens.settings.step2_keep)
        => sens.call.step3_keep = sens.call.step2_keep

\* ------------------------------------------- claims on an unknown method
\* An accepted call whose method is neither lognormal nor kde.
UnknownMethod ==
    /\ method \notin {"lognormal", "kde"}
    /\ Validate(real_data, step1_keep, step2_keep, step3_keep, workflow_steps).ok

\* What the call comes to, whichever error its iterations fail with: nothing
\* is raised, nothing is counted, and the call returns probability 0, no
\* fitted model and no success counts.
ReturnsZero ==
    /\ pc # "raised"
    /\ success_count = 0
    /\ success_counts = <<>>
    /\ pc = "trial" => trial.outcome = "error" /\ trial.drawn_f = <<>>
    /\ pc = "returned" =>
          /\ result.ok
          /\ result.value.success_probability[1] = 0
          /\ result.value.success_probability[2] > 0
          /\ result.value.fitted_model = NoModel
          /\ result.value.success_counts = <<>>

\* C28 as stated: an accepted call with a method outside {lognormal, kde}
\* does not raise: every iteration fails on its first draw with the
\* unsupported-method error, which is swallowed, and the call returns
\* probability 0, no fitted model and no success counts.
C28_UnsupportedMethodInEveryTrial ==
    UnknownMethod =>
        /\ ReturnsZero
        /\ pc = "trial" => trial.error = "Unsupported distribution method"

\* C28 amended: such a call does not raise and returns probability 0, no
\* fitted model and no success counts; every iteration fails on its first
\* draw, with the unsupported-method error when the sample holds a value above
\* zero and with the no-valid-data error when it holds none.
C28_UnknownMethodReturnsZero ==
    UnknownMethod =>
        /\ ReturnsZero
        /\ pc = "trial" =>
              trial.error = IF Positive(real_data) # <<>>
                            THEN "Unsupported distribution method"
                            ELSE "No valid data points for sample generation"

\* A call with an unknown method on a sample without a value above zero
\* returned after MaxRep iterations.
C28_Witness ==
    /\ UnknownMethod
    /\ pc = "returned"
    /\ n_rep = MaxRep
    /\ rep = MaxRep
    /\ Positive(real_data) = <<>>

\* ------------------------------------------- claims on correlation 1
\* The k largest values of a, ascending (none for k = 0, all for k >= Len(a)).
Largest(a, k) ==
    LET s == Sorted(a)
    IN  IF k >= Len(s) THEN s ELSE SubSeq(s, Len(s) - k + 1, Len(s))

\* C29: with correlation 1 every later measurement is the carried stage-1
\* value (ten times it, in tenths), the final survivors of a completed
\* iteration are the step3_keep highest values of the stage-1 vector, and the
\* iteration is fully successful iff the step3_keep-th largest stage-1 value
\* reaches the cutoff.
C29_PerfectCorrelationPicksTop ==
    (Completed /\ correlation = 10) =>
        /\ \A i \in 1..Len(trial.assay_g) : trial.assay_g[i] = 10 * trial.top1_f[i]
        /\ \A i \in 1..Len(trial.assay_h) : trial.assay_h[i] = 10 * trial.top2_f[i]
        /\ Len(trial.final_scores) = step3_keep
        /\ Sorted(trial.final_scores) = Largest(trial.assay_f, step3_keep)
        /\ Succeeded(trial) <=>
              \A i \in 1..Len(Largest(trial.assay_f, step3_keep)) :
                 100 * Largest(trial.assay_f, step3_keep)[i] >= cutoff

\* ------------------------------------------- claims on the efficiency metrics
EffCalled == args.fn = "calculate_workflow_efficiency" /\ out # Pending
PositiveKeeps == args.step1_keep > 0 /\ args.step2_keep > 0 /\ args.step3_keep > 0
\* The count the workflow ends with: step3_keep in three steps, else step2_keep.
FinalSelected == IF args.workflow_steps = 3 THEN args.step3_keep ELSE args.step2_keep

\* The difference of two significands in units of the last place, cut off
\* at +-8.
Sat(v) == IF v > 8 THEN 8 ELSE IF v < -8 THEN -8 ELSE v
Delta(x, y) ==
    Sat(Sat(Sat(Sat(x[4] - y[4]) * Base + x[3] - y[3]) * Base + x[2] - y[2]) * Base
        + x[1] - y[1])
\* How many doubles apart two positive floats are, cut off at 8.
UlpsApart(x, y) ==
    IF x.e = y.e THEN (IF Delta(x.m, y.m) >= 0 THEN Delta(x.m, y.m) ELSE Delta(y.m, x.m))
    ELSE IF x.e = y.e + 1
    THEN Sat(Delta(x.m, <<0, 0, 0, 2^10>>) + Delta(<<0, 0, 0, 2^11>>, y.m))
    ELSE IF y.e = x.e + 1
    THEN Sat(Delta(y.m, <<0, 0, 0, 2^10>>) + Delta(<<0, 0, 0, 2^11>>, x.m))
    ELSE 8

\* C30 as stated: for positive keep-counts the metrics returned satisfy
\* reduction_ratio * overall_efficiency = 1 and
\* overall_efficiency = step1_efficiency * step2_efficiency, with
\* step2_efficiency = 1 and step2_keep as the final count in two steps
\* (step3_keep in three).
C30_IdentitiesExact ==
    (EffCalled /\ PositiveKeeps) =>
        /\ out.ok
        /\ out.value.reduction_ratio = Fdiv(args.step1_keep, FinalSelected)
        /\ out.value.overall_efficiency = Fdiv(FinalSelected, args.step1_keep)
        /\ args.workflow_steps = 2 => out.value.step2_efficiency = One
        /\ Fmul(out.value.reduction_ratio, out.value.overall_efficiency) = One
        /\ out.value.overall_efficiency =
              Fmul(out.value.step1_efficiency, out.value.step2_efficiency)

\* C30 amended: the metrics are the quotients, each rounded to a double, with
\* step2_efficiency = 1 and step2_keep as the final count in two steps
\* (step3_keep in three); reduction_ratio * overall_efficiency is within two
\* doubles of 1, step1_efficiency * step2_efficiency is within four doubles of
\* overall_efficiency, and equal to it in two steps.
C30_IdentitiesUpToRounding ==
    (EffCalled /\ PositiveKeeps) =>
        /\ out.ok
        /\ out.value.reduction_ratio = Fdiv(args.step1_keep, FinalSelected)
        /\ out.value.overall_efficiency = Fdiv(FinalSelected, args.step1_keep)
        /\ args.workflow_steps = 2 =>
              /\ out.value.step2_efficiency = One
              /\ out.value.overall_efficiency =
                    Fmul(out.value.step1_efficiency, out.value.step2_efficiency)
        /\ UlpsApart(Fmul(out.value.reduction_ratio, out.value.overall_efficiency),
                     One) <= 2
        /\ UlpsApart(Fmul(out.value.step1_efficiency, out.value.step2_efficiency),
                     out.value.overall_efficiency) <= 4

\* A call with positive keep-counts returned metrics whose products are both
\* one double away from the value the identities name.
C30_Witness ==
    /\ EffCalled
    /\ PositiveKeeps
    /\ out.ok
    /\ args.workflow_steps = 3
    /\ UlpsApart(Fmul(out.value.reduction_ratio, out.value.overall_efficiency), One) = 1
    /\ UlpsApart(Fmul(out.value.step1_efficiency, out.value.step2_efficiency),
                 out.value.overall_efficiency) = 1

====
